---- MODULE Spec2Model ----
(***************************************************************************)
(* AI-Scholar: a research-discovery assistant.  The model covers the       *)
(* response parser (parseGeminiResponse), the error classifier             *)
(* (handleApiError), the App component's search / cache / chat / per-card  *)
(* handlers and the SearchForm suggestion logic.                           *)
(*                                                                         *)
(* Text is a sequence of tokens.  A label marker such as "**Title:**" is   *)
(* one token, " " and "\n" are the whitespace tokens, "-" is one dash and  *)
(* every other token is a word without whitespace, dashes or markers.      *)
(***************************************************************************)
EXTENDS Integers, Sequences, FiniteSets, TLC

VARIABLES
    \* --- response parser (parseGeminiResponse applied to one text) ---
    blocks,      \* the records the text was written from (generator side);
                 \* for the prompt builder, the options it is called with
    text,        \* the response text handed to the parser; for the prompt
                 \* builder, the CONSTRAINTS section of the prompt
    parsed,      \* the parser's (prompt builder's) return value
    ppc,         \* "ready" before the call, "parsed" (...) after it
    \* --- error classifier (handleApiError applied to one failure) ---
    caught,      \* the value the gateway call threw
    context,     \* the task context handed to handleApiError
    thrown,      \* what handleApiError threw; NoError before the call
    \* --- App component state (useState / useRef) ---
    query, papers, isLoading, error, hasSearched,
    summaryLength, summaryStyle, searchSource,
    favoritePapers,
    analysisResult, isAnalyzing, analysisError,
    citations, isCiting, citationError,
    chatSession, chatHistory, isChatting, chatError,
    connectedPapersResult, isFindingConnected, findConnectedError,
    pdfLoading,
    searchCache,
    \* --- App: asynchronous handlers in flight, clock, counters ---
    now,         \* Date.now(), in ms
    ticks,       \* how often the clock has advanced
    analysis,    \* the handleAnalysis call in flight (see NoAnalysis)
    search,      \* the handleSearch call in flight: its position and locals
    searchCount, \* handleSearch calls so far
    fetchCalls,  \* fetchResearchPapers requests issued so far
    chat,        \* the handleSendMessage call in flight
    sendCount,   \* handleSendMessage calls so far
    pdfTasks,    \* titles of the handleDownloadPdf calls awaiting findPdfLink
    connTasks,   \* seed papers of the handleFindConnectedPapers calls in flight
    \* --- SearchForm component state ---
    inputValue, suggestions, isSuggesting, suggestionsDisabled,
    debounceTimeout,  \* the ref: the id of the timer set last
    timers,           \* the window's pending timers and the input each captured
    suggestTasks,     \* queries of the generateSearchSuggestions calls in flight
    suggestCalls      \* suggestion requests issued so far

parseVars == <<blocks, text, parsed, ppc>>
errVars == <<caught, context, thrown>>
clockVars == <<now, ticks>>
settingVars == <<summaryLength, summaryStyle, searchSource>>
searchVars == <<query, papers, isLoading, error, hasSearched, searchCache,
                search, searchCount, fetchCalls>>
citeVars == <<citations, isCiting, citationError>>
analysisVars == <<analysisResult, isAnalyzing, analysisError, analysis>>
chatVars == <<chatSession, chatHistory, isChatting, chatError, chat, sendCount>>
cardVars == <<connectedPapersResult, isFindingConnected, findConnectedError,
              pdfLoading, pdfTasks, connTasks>>
formVars == <<inputValue, suggestions, isSuggesting, suggestionsDisabled,
              debounceTimeout, timers, suggestTasks, suggestCalls>>
appVars == <<clockVars, settingVars, searchVars, citeVars, analysisVars, chatVars,
             cardVars, favoritePapers>>

(***************************************************************************)
(* Strings                                                                 *)
(***************************************************************************)

Whitespace == {" ", "\n"}

\* String.prototype.trim on a token sequence.
RECURSIVE TrimLeft(_)
TrimLeft(s) ==
    IF s = <<>> THEN <<>>
    ELSE IF Head(s) \in Whitespace THEN TrimLeft(Tail(s)) ELSE s

RECURSIVE TrimRight(_)
TrimRight(s) ==
    IF s = <<>> THEN <<>>
    ELSE IF s[Len(s)] \in Whitespace THEN TrimRight(SubSeq(s, 1, Len(s) - 1)) ELSE s

Trim(s) == TrimRight(TrimLeft(s))

\* s.startsWith(sep) at position i (1-based).
MatchesAt(s, sep, i) ==
    /\ i + Len(sep) - 1 <= Len(s)
    /\ \A j \in 1..Len(sep) : s[i + j - 1] = sep[j]

\* Index of the first occurrence of sep in s at or after position i, 0 if none.
RECURSIVE IndexOfFrom(_, _, _)
IndexOfFrom(s, sep, i) ==
    IF i + Len(sep) - 1 > Len(s) THEN 0
    ELSE IF MatchesAt(s, sep, i) THEN i
    ELSE IndexOfFrom(s, sep, i + 1)

\* String.prototype.includes.
Includes(s, sep) == IndexOfFrom(s, sep, 1) # 0

\* String.prototype.split with a string separator: non-overlapping
\* occurrences, left to right; always at least one piece.
RECURSIVE Split(_, _)
Split(s, sep) ==
    LET i == IndexOfFrom(s, sep, 1)
    IN  IF i = 0 THEN <<s>>
        ELSE <<SubSeq(s, 1, i - 1)>> \o Split(SubSeq(s, i + Len(sep), Len(s)), sep)

\* Array.prototype.join.
RECURSIVE Join(_, _)
Join(parts, sep) ==
    IF parts = <<>> THEN <<>>
    ELSE IF Len(parts) = 1 THEN parts[1]
    ELSE parts[1] \o sep \o Join(Tail(parts), sep)

\* value.split('\n')[0].trim()
FirstLineTrimmed(value) == Trim(Split(value, <<"\n">>)[1])

(***************************************************************************)
(* Error classifier                                                        *)
(* An error message is a sequence of tokens: single characters, and the    *)
(* phrases "rate limit" / "server error" in two spellings.                 *)
(***************************************************************************)

Digits == {"0", "2", "4", "5", "9"}

\* String.prototype.toLowerCase, token by token.
LowerToken(c) ==
    CASE c = "Rate Limit"   -> "rate limit"
      [] c = "Server Error" -> "server error"
      [] c = "X"            -> "x"
      [] c = ".PDF"         -> ".pdf"
      [] OTHER              -> c

ToLowerCase(s) == [n \in 1..Len(s) |-> LowerToken(s[n])]

\* /5\d{2}/.test(s)
RECURSIVE Test5xx(_, _)
Test5xx(s, i) ==
    IF i + 2 > Len(s) THEN FALSE
    ELSE IF s[i] = "5" /\ s[i + 1] \in Digits /\ s[i + 2] \in Digits THEN TRUE
    ELSE Test5xx(s, i + 1)

NoError == [name |-> "none", message |-> <<>>]

RATE_LIMIT_MESSAGE == <<"You've exceeded the request rate limit. Please wait a moment and try again.">>
SERVER_ERROR_MESSAGE == <<"The research service is currently experiencing issues. Please try again later.">>

\* Mutant: the 5xx test made before the rate-limit test.
handleApiError_ServerFirst(err, ctx) ==
    IF err.isError
    THEN IF Test5xx(err.message, 1)
            \/ Includes(ToLowerCase(err.message), <<"server error">>)
         THEN [name |-> "ServerError", message |-> SERVER_ERROR_MESSAGE]
         ELSE IF Includes(err.message, <<"4", "2", "9">>)
                 \/ Includes(ToLowerCase(err.message), <<"rate limit">>)
         THEN [name |-> "RateLimitError", message |-> RATE_LIMIT_MESSAGE]
         ELSE [name |-> "ApiError",
               message |-> <<"An issue occurred while ", ctx, ": ">> \o err.message]
    ELSE [name |-> "ApiError",
          message |-> <<"An unknown error occurred while ", ctx, ".">>]

\* handleApiError never returns: the result is the exception it throws.
handleApiError(err, ctx) ==
    IF err.isError
    THEN IF Includes(err.message, <<"4", "2", "9">>)
            \/ Includes(ToLowerCase(err.message), <<"rate limit">>)
         THEN [name |-> "RateLimitError", message |-> RATE_LIMIT_MESSAGE]
         ELSE IF Test5xx(err.message, 1)
                 \/ Includes(ToLowerCase(err.message), <<"server error">>)
         THEN [name |-> "ServerError", message |-> SERVER_ERROR_MESSAGE]
         ELSE [name |-> "ApiError",
               message |-> <<"An issue occurred while ", ctx, ": ">> \o err.message]
    ELSE [name |-> "ApiError",
          message |-> <<"An unknown error occurred while ", ctx, ".">>]

\* Bound: the number of tokens of an error message.
MaxMsgLen == 4

MsgTokens == {"4", "2", "9", "5", "0", "x", "rate limit", "Rate Limit",
              "server error", "Server Error"}

RECURSIVE MessagesOfLen(_)
MessagesOfLen(n) ==
    IF n = 0 THEN {<<>>}
    ELSE {Append(m, c) : m \in MessagesOfLen(n - 1), c \in MsgTokens}

\* The messages of up to k tokens.
MessagesUpTo(k) == UNION {MessagesOfLen(n) : n \in 0..k}

\* What a gateway call can throw: an Error with a message, or a non-Error value.
Failures(k) ==
    {[isError |-> TRUE, message |-> m] : m \in MessagesUpTo(k)}
        \cup {[isError |-> FALSE, message |-> <<>>]}

Contexts == {"fetching research papers", "generating citations"}

ErrInit ==
    /\ caught \in Failures(MaxMsgLen)
    /\ context \in Contexts
    /\ thrown = NoError

ClassifyError ==
    /\ thrown = NoError
    /\ thrown' = handleApiError(caught, context)
    /\ UNCHANGED <<caught, context>>

(***************************************************************************)
(* Response parser                                                         *)
(***************************************************************************)

\* The tokens fieldRegex accepts as  \*\*([A-Za-z]+):\*\*  and the value of
\* match[1].toLowerCase() for each.
LabelKey ==
    [l \in {"**Title:**", "**TITLE:**", "**Authors:**", "**Year:**",
            "**SourceURL:**", "**Summary:**", "**Connection:**", "**Note:**"} |->
        CASE l \in {"**Title:**", "**TITLE:**"} -> "title"
          [] l = "**Authors:**"    -> "authors"
          [] l = "**Year:**"       -> "year"
          [] l = "**SourceURL:**"  -> "sourceurl"
          [] l = "**Summary:**"    -> "summary"
          [] l = "**Connection:**" -> "connection"
          [] l = "**Note:**"       -> "note"]

Labels == DOMAIN LabelKey

DELIM == <<"-", "-", "-">>

\* Position of the first label marker of s at or after i, Len(s) + 1 if none.
RECURSIVE NextLabel(_, _)
NextLabel(s, i) ==
    IF i > Len(s) THEN Len(s) + 1
    ELSE IF s[i] \in Labels THEN i
    ELSE NextLabel(s, i + 1)

\* The switch of parseGeminiResponse: the property key a field is stored
\* under and the stored value; unrecognised keys store nothing.
PaperFieldName(key) ==
    CASE key = "title"     -> "title"
      [] key = "authors"   -> "authors"
      [] key = "year"      -> "year"
      [] key = "sourceurl" -> "sourceURL"
      [] key = "summary"   -> "summary"
      [] OTHER             -> "none"

PaperFieldValue(key, value) ==
    IF key = "summary" THEN value ELSE FirstLineTrimmed(value)

\* The while loop over fieldRegex.exec(trimmedBlock), from lastIndex = i with
\* the partial paper built so far.  A match starts at the next label marker;
\* its value runs up to the next marker (or the end of the block) and is
\* trimmed; the next search resumes where the match ended.
RECURSIVE FieldLoop(_, _, _)
FieldLoop(blk, i, paper) ==
    LET at == NextLabel(blk, i)
    IN  IF at > Len(blk) THEN paper
        ELSE LET upto  == NextLabel(blk, at + 1)
                 key   == LabelKey[blk[at]]
                 value == Trim(SubSeq(blk, at + 1, upto - 1))
                 name  == PaperFieldName(key)
                 next  == IF name = "none" THEN paper
                          ELSE (name :> PaperFieldValue(key, value)) @@ paper
             IN  FieldLoop(blk, upto, next)

\* paper.f is truthy: the property exists and is not the empty string.
Truthy(paper, f) == f \in DOMAIN paper /\ paper[f] # <<>>

\* Mutant: the Authors test left out of the validity check.
EssentialFieldsFound_NoAuthors(paper) ==
    /\ Truthy(paper, "title")
    /\ Truthy(paper, "year")
    /\ Truthy(paper, "summary")

EssentialFieldsFound(paper) ==
    /\ Truthy(paper, "title")
    /\ Truthy(paper, "authors")
    /\ Truthy(paper, "year")
    /\ Truthy(paper, "summary")

\* The for loop over paperBlocks.
RECURSIVE ParseBlocks(_)
ParseBlocks(paperBlocks) ==
    IF paperBlocks = <<>> THEN <<>>
    ELSE LET trimmedBlock == Trim(Head(paperBlocks))
             paper        == FieldLoop(trimmedBlock, 1, <<>>)
             rest         == ParseBlocks(Tail(paperBlocks))
         IN  IF trimmedBlock = <<>> THEN rest
             ELSE IF EssentialFieldsFound(paper) THEN <<paper>> \o rest
             ELSE rest

parseGeminiResponse(t) ==
    IF Trim(t) = <<>> THEN <<>> ELSE ParseBlocks(Split(t, DELIM))

(***************************************************************************)
(* Response texts: written from known records, as the prompt asks          *)
(***************************************************************************)

\* Bound: the number of paper blocks of a response text.
MaxBlocks == 2

Field(l, v) == [label |-> l, value |-> v]

\* The title of the i-th written block; distinct per block, two words.
TitleOf(i) == <<"Paper", " ", ToString(i)>>

AUTHORS  == <<"Lee,", " ", "Kim">>
YEAR     == <<"2020">>
URL      == <<"http://x">>
SUMMARY1 == <<"S1">>
\* A summary wrapped over two lines.
SUMMARY2 == <<"S2", " ", "a", "\n", "line2">>
\* A summary and a title with a --- inside a line.
SUMMARY_DASHED == <<"pre", "-", "-", "-", "post">>
TitleDashed(i) == <<"Paper", "-", "-", "-", ToString(i)>>

\* The ways the i-th block of a text is written: one "**Label:** value" line
\* per field.
CompleteShapes(i) ==
    { \* canonical order, no SourceURL
      << Field("**Title:**", TitleOf(i)), Field("**Authors:**", AUTHORS),
         Field("**Year:**", YEAR), Field("**Summary:**", SUMMARY1) >>,
      \* canonical order with SourceURL and a two-line Summary
      << Field("**Title:**", TitleOf(i)), Field("**Authors:**", AUTHORS),
         Field("**Year:**", YEAR), Field("**SourceURL:**", URL),
         Field("**Summary:**", SUMMARY2) >>,
      \* re-ordered: the two-line Summary first
      << Field("**Summary:**", SUMMARY2), Field("**Year:**", YEAR),
         Field("**SourceURL:**", URL), Field("**Authors:**", AUTHORS),
         Field("**Title:**", TitleOf(i)) >>,
      \* upper-case label and an unrecognised extra field
      << Field("**TITLE:**", TitleOf(i)), Field("**Authors:**", AUTHORS),
         Field("**Summary:**", SUMMARY1), Field("**Note:**", <<"n">>),
         Field("**Year:**", YEAR) >> }

DashedShapes(i) ==
    { << Field("**Title:**", TitleOf(i)), Field("**Authors:**", AUTHORS),
         Field("**Year:**", YEAR), Field("**Summary:**", SUMMARY_DASHED) >>,
      << Field("**Title:**", TitleDashed(i)), Field("**Authors:**", AUTHORS),
         Field("**Year:**", YEAR), Field("**Summary:**", SUMMARY1) >> }

IncompleteShapes(i) ==
    { \* one mandatory field missing
      << Field("**Authors:**", AUTHORS), Field("**Year:**", YEAR),
         Field("**Summary:**", SUMMARY1) >>,
      << Field("**Title:**", TitleOf(i)), Field("**Year:**", YEAR),
         Field("**Summary:**", SUMMARY1) >>,
      << Field("**Title:**", TitleOf(i)), Field("**Authors:**", AUTHORS),
         Field("**SourceURL:**", URL), Field("**Summary:**", SUMMARY2) >>,
      << Field("**Title:**", TitleOf(i)), Field("**Authors:**", AUTHORS),
         Field("**Year:**", YEAR), Field("**SourceURL:**", URL) >>,
      \* a mandatory field written with an empty value
      << Field("**Title:**", TitleOf(i)), Field("**Authors:**", <<>>),
         Field("**Year:**", YEAR), Field("**Summary:**", SUMMARY1) >>,
      << Field("**Title:**", TitleOf(i)), Field("**Authors:**", AUTHORS),
         Field("**Year:**", YEAR), Field("**Summary:**", <<>>) >>,
      \* nothing between two delimiters
      << >> }

BlockShapes(i) == CompleteShapes(i) \cup DashedShapes(i) \cup IncompleteShapes(i)

\* All sequences of n blocks, the i-th written in one of its shapes.
RECURSIVE BlockSeqs(_)
BlockSeqs(n) ==
    IF n = 0 THEN {<<>>}
    ELSE {Append(bs, b) : bs \in BlockSeqs(n - 1), b \in BlockShapes(n)}

WrittenBlocks == UNION {BlockSeqs(n) : n \in 0..MaxBlocks}

RECURSIVE RenderLines(_)
RenderLines(fields) ==
    IF fields = <<>> THEN <<>>
    ELSE <<<<Head(fields).label, " ">> \o Head(fields).value>> \o RenderLines(Tail(fields))

\* One block: its field lines joined by newlines.
RenderBlock(fields) == Join(RenderLines(fields), <<"\n">>)

RECURSIVE RenderBlocks(_)
RenderBlocks(bs) ==
    IF bs = <<>> THEN <<>> ELSE <<RenderBlock(Head(bs))>> \o RenderBlocks(Tail(bs))

\* The whole text: the blocks joined by a line holding exactly ---.
RenderText(bs) == Join(RenderBlocks(bs), <<"\n">> \o DELIM \o <<"\n">>)

(***************************************************************************)
(* App component                                                           *)
(***************************************************************************)

\* T | null
None == <<>>
Some(v) == <<v>>

CACHE_DURATION_MS == 300000

\* parseConnectedPapersResponse: parseGeminiResponse with a Connection field.
ConnectedFieldName(key) ==
    IF key = "connection" THEN "connection" ELSE PaperFieldName(key)

ConnectedFieldValue(key, value) ==
    IF key \in {"summary", "connection"} THEN value ELSE FirstLineTrimmed(value)

RECURSIVE ConnectedFieldLoop(_, _, _)
ConnectedFieldLoop(blk, i, paper) ==
    LET at == NextLabel(blk, i)
    IN  IF at > Len(blk) THEN paper
        ELSE LET upto  == NextLabel(blk, at + 1)
                 key   == LabelKey[blk[at]]
                 value == Trim(SubSeq(blk, at + 1, upto - 1))
                 name  == ConnectedFieldName(key)
                 next  == IF name = "none" THEN paper
                          ELSE (name :> ConnectedFieldValue(key, value)) @@ paper
             IN  ConnectedFieldLoop(blk, upto, next)

RECURSIVE ParseConnectedBlocks(_)
ParseConnectedBlocks(paperBlocks) ==
    IF paperBlocks = <<>> THEN <<>>
    ELSE LET trimmedBlock == Trim(Head(paperBlocks))
             paper        == ConnectedFieldLoop(trimmedBlock, 1, <<>>)
             rest         == ParseConnectedBlocks(Tail(paperBlocks))
         IN  IF trimmedBlock = <<>> THEN rest
             ELSE IF EssentialFieldsFound(paper) /\ Truthy(paper, "connection")
                  THEN <<paper>> \o rest
             ELSE rest

parseConnectedPapersResponse_AsPapers(t) == parseGeminiResponse(t)

parseConnectedPapersResponse(t) ==
    IF Trim(t) = <<>> THEN <<>> ELSE ParseConnectedBlocks(Split(t, DELIM))

\* favoritePapers.map(p => p.title) and the like.
TitlesOf(ps) == [n \in 1..Len(ps) |-> ps[n].title]

\* The cacheKey template string of handleSearch.
CacheKey(searchQuery, source, length, style, advancedOptions, favorites) ==
    ToLowerCase(Trim(searchQuery))
        \o <<"|", source, "|", length, "|", style, "|">>
        \o advancedOptions.startYear \o <<"-">> \o advancedOptions.endYear
        \o <<"|">> \o advancedOptions.authors
        \o <<"|">> \o advancedOptions.excludeKeywords
        \o <<"|", "favs:">> \o Join(TitlesOf(favorites), <<";">>)

\* Mutant: the comparison of the expiry test turned round.
CacheHit_Inverted(cache, key, t) ==
    /\ key \in DOMAIN cache
    /\ t - cache[key].timestamp >= CACHE_DURATION_MS

\* Mutant: an entry is still served when exactly CACHE_DURATION_MS old.
CacheHit_Inclusive(cache, key, t) ==
    /\ key \in DOMAIN cache
    /\ t - cache[key].timestamp <= CACHE_DURATION_MS

\* cachedData && (Date.now() - cachedData.timestamp < CACHE_DURATION_MS)
CacheHit(cache, key, t) ==
    /\ key \in DOMAIN cache
    /\ t - cache[key].timestamp < CACHE_DURATION_MS

\* searchCache.current.set(key, entry)
CachePut_PapersOnly(cache, key, entry) ==
    IF entry.papers = <<>> THEN cache ELSE (key :> entry) @@ cache

\* searchCache.current.set(cacheKey, entry)
CachePut(cache, key, entry) == (key :> entry) @@ cache

\* The handleSearch call: where it stands, its locals, and (for the claims)
\* what was asked, how it ended and whether it found an entry under its key.
NoSearch == [pc |-> "idle", searchQuery |-> <<>>, cacheKey |-> <<>>, inputs |-> <<>>,
             parsedPapers |-> <<>>, outcome |-> "none", expired |-> FALSE,
             lookupAt |-> 0]
NoChat == [pc |-> "idle", session |-> None, modelResponse |-> <<>>, chunks |-> 0,
           received |-> <<>>]

\* The handleAnalysis call: where it stands and the papers it was given.
NoAnalysis == [pc |-> "idle", papers |-> <<>>]

AppInit ==
    /\ query = <<>> /\ papers = <<>> /\ isLoading = FALSE /\ error = None
    /\ hasSearched = FALSE
    /\ summaryLength = "medium" /\ summaryStyle = "paragraph"
    /\ searchSource = "google_scholar"
    /\ favoritePapers = <<>>
    /\ analysisResult = None /\ isAnalyzing = FALSE /\ analysisError = None
    /\ analysis = NoAnalysis
    /\ citations = <<>> /\ isCiting = FALSE /\ citationError = None
    /\ chatSession = None /\ chatHistory = <<>> /\ isChatting = FALSE
    /\ chatError = None
    /\ connectedPapersResult = None /\ isFindingConnected = None
    /\ findConnectedError = None
    /\ pdfLoading = None
    /\ searchCache = <<>>
    /\ now = 0 /\ ticks = 0
    /\ search = NoSearch /\ searchCount = 0 /\ fetchCalls = 0
    /\ chat = NoChat /\ sendCount = 0
    /\ pdfTasks = <<>> /\ connTasks = <<>>


FormInit ==
    /\ inputValue = <<>> /\ suggestions = <<>> /\ isSuggesting = FALSE
    /\ suggestionsDisabled = FALSE /\ debounceTimeout = None /\ timers = {}
    /\ suggestTasks = <<>> /\ suggestCalls = 0

ClearTimeout_Nothing(ts, ref) == ts

\* if (debounceTimeout.current) clearTimeout(debounceTimeout.current):
\* the timer of that id, if it is still pending, is removed.
ClearTimeout(ts, ref) ==
    IF ref = None THEN ts ELSE {t \in ts : t.id # ref[1]}

\* window.setTimeout(() => fetchSuggestions(inputValue), 500): a timer with
\* an id that no pending timer has, capturing the input value.
SetTimeout(ts, inp) ==
    LET ids == {t.id : t \in ts}
        id == CHOOSE n \in 1..(Cardinality(ts) + 1) :
                  n \notin ids /\ \A k \in 1..(n - 1) : k \in ids
    IN  [id |-> id, value |-> inp]

\* SearchForm's useEffect on [inputValue, isLoading, suggestionsDisabled]:
\* the timer of the ref is cleared, then suggestions are cleared or a new
\* 500 ms timer is set that captures the input value.
EffectRun(inp, loading, disabled, sugg, ts, ref) ==
    LET cleared == ClearTimeout(ts, ref)
        timer == SetTimeout(cleared, inp)
    IN  IF loading \/ disabled
        THEN [timers |-> cleared, ref |-> ref, suggestions |-> <<>>]
        ELSE IF Trim(inp) # <<>>
        THEN [timers |-> cleared \cup {timer}, ref |-> Some(timer.id),
              suggestions |-> sugg]
        ELSE [timers |-> cleared, ref |-> ref, suggestions |-> <<>>]

\* The effect runs after a render in which one of its dependencies changed.
\* (Conjoined after the action has set inputValue', isLoading' and
\* suggestionsDisabled'.)
FormEffect ==
    IF <<inputValue', isLoading', suggestionsDisabled'>>
            # <<inputValue, isLoading, suggestionsDisabled>>
    THEN LET e == EffectRun(inputValue', isLoading', suggestionsDisabled', suggestions,
                            timers, debounceTimeout)
         IN  /\ timers' = e.timers
             /\ debounceTimeout' = e.ref
             /\ suggestions' = e.suggestions
    ELSE UNCHANGED <<debounceTimeout, timers, suggestions>>

\* The form is not touched by the action, but its effect sees isLoading.
FormUntouched ==
    /\ UNCHANGED <<inputValue, isSuggesting, suggestionsDisabled, suggestTasks,
                   suggestCalls>>
    /\ FormEffect

\* The clock advances by one second or by 4 min 59 s.
TickSteps == {1000, 299000}

Tick(d) ==
    /\ ticks' = ticks + 1
    /\ now' = now + d
    /\ UNCHANGED <<settingVars, searchVars, citeVars, analysisVars, chatVars,
                   cardVars, favoritePapers, formVars, parseVars, errVars>>

\* onSourceChange / onLengthChange / onStyleChange: the setters themselves.
SetSearchSource(v) ==
    /\ searchSource' = v
    /\ searchSource # v
    /\ UNCHANGED <<summaryLength, summaryStyle, clockVars, searchVars, citeVars,
                   analysisVars, chatVars, cardVars, favoritePapers, formVars,
                   parseVars, errVars>>

SetSummaryLength(v) ==
    /\ summaryLength' = v
    /\ summaryLength # v
    /\ UNCHANGED <<searchSource, summaryStyle, clockVars, searchVars, citeVars,
                   analysisVars, chatVars, cardVars, favoritePapers, formVars,
                   parseVars, errVars>>

SetSummaryStyle(v) ==
    /\ summaryStyle' = v
    /\ summaryStyle # v
    /\ UNCHANGED <<searchSource, summaryLength, clockVars, searchVars, citeVars,
                   analysisVars, chatVars, cardVars, favoritePapers, formVars,
                   parseVars, errVars>>

SamePaper(p, q) == p.title = q.title /\ p.authors = q.authors

\* Array.prototype.filter(p => ~SamePaper(p, paper))
RECURSIVE WithoutPaper(_, _)
WithoutPaper(ps, paper) ==
    IF ps = <<>> THEN <<>>
    ELSE (IF SamePaper(Head(ps), paper) THEN <<>> ELSE <<Head(ps)>>)
         \o WithoutPaper(Tail(ps), paper)

\* Bound: the number of favorite papers.
MaxFavorites == 2

\* The star of a displayed card, or of an entry of the favorites list.
handleToggleFavorite(paper) ==
    /\ \/ \E n \in 1..Len(papers) : papers[n] = paper
       \/ \E n \in 1..Len(favoritePapers) : favoritePapers[n] = paper
    /\ LET isFavorited == \E n \in 1..Len(favoritePapers) :
                              SamePaper(favoritePapers[n], paper)
       IN  IF isFavorited
           THEN favoritePapers' = WithoutPaper(favoritePapers, paper)
           ELSE /\ Len(favoritePapers) < MaxFavorites
                /\ favoritePapers' = Append(favoritePapers, paper)
    /\ UNCHANGED <<clockVars, settingVars, searchVars, citeVars, analysisVars,
                   chatVars, cardVars, formVars, parseVars, errVars>>

\* initializeChatSession(foundPapers) during handleSearch call number n.
initializeChatSession_KeepsSession(foundPapers, n) ==
    IF foundPapers = <<>>
    THEN UNCHANGED <<chatSession, chatHistory, chatError>>
    ELSE /\ chatSession' = Some([papers |-> foundPapers, createdBy |-> n])
         /\ chatHistory' = <<>>
         /\ chatError' = None

initializeChatSession(foundPapers, n) ==
    IF foundPapers = <<>>
    THEN /\ chatSession' = None
         /\ UNCHANGED <<chatHistory, chatError>>
    ELSE /\ chatSession' = Some([papers |-> foundPapers, createdBy |-> n])
         /\ chatHistory' = <<>>
         /\ chatError' = None

EMPTY_RESPONSE_MESSAGE ==
    <<"The model returned an empty response. Please try refining your search query.">>
UNPARSABLE_MESSAGE ==
    <<"Couldn't parse the research papers from the response. The model may have returned a non-standard format.">>

AppHandleSearch_WhileLoading(searchQuery, advancedOptions) ==
    /\ Trim(searchQuery) # <<>>    \* submit disabled; if (!searchQuery.trim()) return
    /\ searchCount' = searchCount + 1
    /\ LET cacheKey == CacheKey(searchQuery, searchSource, summaryLength,
                                summaryStyle, advancedOptions, favoritePapers)
           \* what the caller asked for (kept for the cache claims)
           inputs == [query |-> ToLowerCase(Trim(searchQuery)),
                      source |-> searchSource, length |-> summaryLength,
                      style |-> summaryStyle, options |-> advancedOptions,
                      favorites |-> favoritePapers]
       IN  IF CacheHit(searchCache, cacheKey, now)
           THEN LET cachedData == searchCache[cacheKey]
                IN  /\ query' = searchQuery
                    /\ papers' = cachedData.papers
                    /\ citations' = cachedData.citations
                    /\ hasSearched' = TRUE
                    /\ error' = None
                    /\ isLoading' = FALSE
                    /\ analysisResult' = None
                    /\ analysisError' = None
                    /\ citationError' = None
                    /\ initializeChatSession(cachedData.papers, searchCount + 1)
                    /\ search' = [NoSearch EXCEPT !.searchQuery = searchQuery,
                                                  !.cacheKey = cacheKey,
                                                  !.inputs = inputs,
                                                  !.outcome = "hit",
                                                  !.lookupAt = now]
                    /\ UNCHANGED <<fetchCalls, searchCache, isCiting>>
           ELSE /\ query' = searchQuery
                /\ isLoading' = TRUE
                /\ error' = None
                /\ hasSearched' = TRUE
                /\ papers' = <<>>
                /\ analysisResult' = None
                /\ analysisError' = None
                /\ citations' = <<>>
                /\ citationError' = None
                /\ chatSession' = None
                /\ chatHistory' = <<>>
                /\ fetchCalls' = fetchCalls + 1
                /\ search' = [NoSearch EXCEPT !.pc = "fetching",
                                              !.searchQuery = searchQuery,
                                              !.cacheKey = cacheKey,
                                              !.inputs = inputs,
                                              !.outcome = "pending",
                                              !.lookupAt = now,
                                              !.expired = cacheKey \in DOMAIN searchCache]
                /\ UNCHANGED <<chatError, searchCache, isCiting>>
    /\ UNCHANGED <<clockVars, settingVars, isAnalyzing, analysis, isChatting, chat,
                   sendCount,
                   cardVars, favoritePapers, parseVars, errVars>>

\* handleSearch up to its first await: the cache lookup, and either the
\* cached result or the reset and the fetchResearchPapers request.
AppHandleSearch(searchQuery, advancedOptions) ==
    /\ ~isLoading                  \* input and submit button are disabled
    /\ Trim(searchQuery) # <<>>    \* submit disabled; if (!searchQuery.trim()) return
    /\ searchCount' = searchCount + 1
    /\ LET cacheKey == CacheKey(searchQuery, searchSource, summaryLength,
                                summaryStyle, advancedOptions, favoritePapers)
           \* what the caller asked for (kept for the cache claims)
           inputs == [query |-> ToLowerCase(Trim(searchQuery)),
                      source |-> searchSource, length |-> summaryLength,
                      style |-> summaryStyle, options |-> advancedOptions,
                      favorites |-> favoritePapers]
       IN  IF CacheHit(searchCache, cacheKey, now)
           THEN LET cachedData == searchCache[cacheKey]
                IN  /\ query' = searchQuery
                    /\ papers' = cachedData.papers
                    /\ citations' = cachedData.citations
                    /\ hasSearched' = TRUE
                    /\ error' = None
                    /\ isLoading' = FALSE
                    /\ analysisResult' = None
                    /\ analysisError' = None
                    /\ citationError' = None
                    /\ initializeChatSession(cachedData.papers, searchCount + 1)
                    /\ search' = [NoSearch EXCEPT !.searchQuery = searchQuery,
                                                  !.cacheKey = cacheKey,
                                                  !.inputs = inputs,
                                                  !.outcome = "hit",
                                                  !.lookupAt = now]
                    /\ UNCHANGED <<fetchCalls, searchCache, isCiting>>
           ELSE /\ query' = searchQuery
                /\ isLoading' = TRUE
                /\ error' = None
                /\ hasSearched' = TRUE
                /\ papers' = <<>>
                /\ analysisResult' = None
                /\ analysisError' = None
                /\ citations' = <<>>
                /\ citationError' = None
                /\ chatSession' = None
                /\ chatHistory' = <<>>
                /\ fetchCalls' = fetchCalls + 1
                /\ search' = [NoSearch EXCEPT !.pc = "fetching",
                                              !.searchQuery = searchQuery,
                                              !.cacheKey = cacheKey,
                                              !.inputs = inputs,
                                              !.outcome = "pending",
                                              !.lookupAt = now,
                                              !.expired = cacheKey \in DOMAIN searchCache]
                /\ UNCHANGED <<chatError, searchCache, isCiting>>
    /\ UNCHANGED <<clockVars, settingVars, isAnalyzing, analysis, isChatting, chat,
                   sendCount,
                   cardVars, favoritePapers, parseVars, errVars>>

\* handleSearch called with a query and options; the form itself is idle.
HandleSearch(searchQuery, advancedOptions) ==
    /\ AppHandleSearch(searchQuery, advancedOptions)
    /\ FormUntouched

\* The cache entry handleSearch writes (inputs: who wrote it, for the claims).
NewEntry(ps, cs) ==
    [papers |-> ps, citations |-> cs, timestamp |-> now, inputs |-> search.inputs]

FetchReturns_MessagesSwapped(t) ==
    /\ search.pc = "fetching"
    /\ LET parsedPapers == parseGeminiResponse(t)
       IN  /\ papers' = parsedPapers
           /\ initializeChatSession(parsedPapers, searchCount)
           /\ IF parsedPapers # <<>>
              THEN \* handleGenerateCitations up to its await
                   /\ isCiting' = TRUE
                   /\ citationError' = None
                   /\ search' = [search EXCEPT !.pc = "citing",
                                               !.parsedPapers = parsedPapers]
                   /\ UNCHANGED <<searchCache, error, isLoading>>
              ELSE /\ searchCache' = CachePut(searchCache, search.cacheKey,
                                              NewEntry(parsedPapers, <<>>))
                   /\ error' = Some(IF t # <<>> THEN EMPTY_RESPONSE_MESSAGE
                                    ELSE UNPARSABLE_MESSAGE)
                   /\ isLoading' = FALSE
                   /\ search' = [search EXCEPT !.pc = "idle", !.outcome = "delivered"]
                   /\ UNCHANGED <<isCiting, citationError>>
    /\ FormUntouched
    /\ UNCHANGED <<query, hasSearched, searchCount, fetchCalls, citations,
                   clockVars, settingVars, analysisVars, isChatting, chat, sendCount,
                   cardVars, favoritePapers, parseVars, errVars>>

\* fetchResearchPapers resolves with { text, sources }.
FetchReturns(t) ==
    /\ search.pc = "fetching"
    /\ LET parsedPapers == parseGeminiResponse(t)
       IN  /\ papers' = parsedPapers
           /\ initializeChatSession(parsedPapers, searchCount)
           /\ IF parsedPapers # <<>>
              THEN \* handleGenerateCitations up to its await
                   /\ isCiting' = TRUE
                   /\ citationError' = None
                   /\ search' = [search EXCEPT !.pc = "citing",
                                               !.parsedPapers = parsedPapers]
                   /\ UNCHANGED <<searchCache, error, isLoading>>
              ELSE /\ searchCache' = CachePut(searchCache, search.cacheKey,
                                              NewEntry(parsedPapers, <<>>))
                   /\ error' = Some(IF t = <<>> THEN EMPTY_RESPONSE_MESSAGE
                                    ELSE UNPARSABLE_MESSAGE)
                   /\ isLoading' = FALSE
                   /\ search' = [search EXCEPT !.pc = "idle", !.outcome = "delivered"]
                   /\ UNCHANGED <<isCiting, citationError>>
    /\ FormUntouched
    /\ UNCHANGED <<query, hasSearched, searchCount, fetchCalls, citations,
                   clockVars, settingVars, analysisVars, isChatting, chat, sendCount,
                   cardVars, favoritePapers, parseVars, errVars>>

FetchThrows_Retry(failure) ==
    /\ search.pc = "fetching"
    /\ fetchCalls' = fetchCalls + 1
    /\ UNCHANGED <<isLoading, error, search>>
    /\ FormUntouched
    /\ UNCHANGED <<query, papers, hasSearched, searchCache, searchCount, clockVars,
                   settingVars, citeVars, analysisVars, chatVars, cardVars,
                   favoritePapers, parseVars, errVars>>

FetchThrows_Evicts(failure) ==
    /\ search.pc = "fetching"
    /\ error' = Some(handleApiError(failure, "fetching research papers").message)
    /\ isLoading' = FALSE
    /\ search' = [search EXCEPT !.pc = "idle", !.outcome = "failed"]
    /\ searchCache' = [k \in DOMAIN searchCache \ {search.cacheKey} |-> searchCache[k]]
    /\ FormUntouched
    /\ UNCHANGED <<query, papers, hasSearched, searchCount, fetchCalls,
                   clockVars, settingVars, citeVars, analysisVars, chatVars, cardVars,
                   favoritePapers, parseVars, errVars>>

\* fetchResearchPapers rejects: its catch hands the failure to handleApiError,
\* and the catch of handleSearch shows the ApiError's message.
FetchThrows(failure) ==
    /\ search.pc = "fetching"
    /\ error' = Some(handleApiError(failure, "fetching research papers").message)
    /\ isLoading' = FALSE
    /\ search' = [search EXCEPT !.pc = "idle", !.outcome = "failed"]
    /\ FormUntouched
    /\ UNCHANGED <<query, papers, hasSearched, searchCache, searchCount, fetchCalls,
                   clockVars, settingVars, citeVars, analysisVars, chatVars, cardVars,
                   favoritePapers, parseVars, errVars>>

\* generateCitations resolves; handleGenerateCitations returns the citations
\* and handleSearch writes the cache entry.
CitationsReturn(cs) ==
    /\ search.pc = "citing"
    /\ citations' = cs
    /\ isCiting' = FALSE
    /\ searchCache' = CachePut(searchCache, search.cacheKey,
                               NewEntry(search.parsedPapers, cs))
    /\ isLoading' = FALSE
    /\ search' = [search EXCEPT !.pc = "idle", !.outcome = "delivered"]
    /\ FormUntouched
    /\ UNCHANGED <<query, papers, error, hasSearched, searchCount, fetchCalls,
                   citationError, clockVars, settingVars, analysisVars, chatVars,
                   cardVars, favoritePapers, parseVars, errVars>>

PARSING_CITATIONS_MESSAGE ==
    <<"The citation data returned by the model was not valid JSON.">>

generateCitationsError_ClassifierFirst(failure) ==
    IF handleApiError(failure, "generating citations").name # "ApiError"
    THEN handleApiError(failure, "generating citations")
    ELSE IF failure.isSyntaxError
    THEN [name |-> "ParsingError", message |-> PARSING_CITATIONS_MESSAGE]
    ELSE handleApiError(failure, "generating citations")

\* What generateCitations throws for a failure of its try block.
generateCitationsError(failure) ==
    IF failure.isSyntaxError
    THEN [name |-> "ParsingError", message |-> PARSING_CITATIONS_MESSAGE]
    ELSE handleApiError(failure, "generating citations")

\* generateCitations rejects; handleGenerateCitations shows the message and
\* returns [], which handleSearch caches.
CitationsThrow(failure) ==
    /\ search.pc = "citing"
    /\ citationError' = Some(generateCitationsError(failure).message)
    /\ isCiting' = FALSE
    /\ searchCache' = CachePut(searchCache, search.cacheKey,
                               NewEntry(search.parsedPapers, <<>>))
    /\ isLoading' = FALSE
    /\ search' = [search EXCEPT !.pc = "idle", !.outcome = "delivered"]
    /\ FormUntouched
    /\ UNCHANGED <<query, papers, error, hasSearched, searchCount, fetchCalls,
                   citations, clockVars, settingVars, analysisVars, chatVars,
                   cardVars, favoritePapers, parseVars, errVars>>


\* --- cluster analysis ---

\* handleAnalysis up to its await (the button is rendered for papers without
\* an analysis result and disabled while isAnalyzing).
HandleAnalysis ==
    /\ papers # <<>> /\ analysisResult = None /\ ~isAnalyzing
    /\ isAnalyzing' = TRUE
    /\ analysisError' = None
    /\ analysis' = [pc |-> "analyzing", papers |-> papers]
    /\ UNCHANGED <<analysisResult, clockVars, settingVars, searchVars, citeVars,
                   chatVars, cardVars, favoritePapers, formVars, parseVars,
                   errVars>>

\* analyzeAndClusterPapers resolves with the parsed clusters.
AnalysisReturns(result) ==
    /\ analysis.pc = "analyzing"
    /\ analysisResult' = Some(result)
    /\ isAnalyzing' = FALSE
    /\ analysis' = NoAnalysis
    /\ UNCHANGED <<analysisError, clockVars, settingVars, searchVars, citeVars,
                   chatVars, cardVars, favoritePapers, formVars, parseVars,
                   errVars>>

PARSING_ANALYSIS_MESSAGE ==
    <<"The analysis data returned by the model was not valid JSON.">>

\* What analyzeAndClusterPapers throws for a failure of its try block.
analyzeAndClusterPapersError(failure) ==
    IF failure.isSyntaxError
    THEN [name |-> "ParsingError", message |-> PARSING_ANALYSIS_MESSAGE]
    ELSE handleApiError(failure, "performing cluster analysis")

AnalysisThrows_NoFinally(failure) ==
    /\ analysis.pc = "analyzing"
    /\ analysisError' = Some(analyzeAndClusterPapersError(failure).message)
    /\ analysis' = NoAnalysis
    /\ UNCHANGED <<analysisResult, isAnalyzing, clockVars, settingVars, searchVars,
                   citeVars, chatVars, cardVars, favoritePapers, formVars, parseVars,
                   errVars>>

\* analyzeAndClusterPapers rejects; handleAnalysis shows the message.
AnalysisThrows(failure) ==
    /\ analysis.pc = "analyzing"
    /\ analysisError' = Some(analyzeAndClusterPapersError(failure).message)
    /\ isAnalyzing' = FALSE
    /\ analysis' = NoAnalysis
    /\ UNCHANGED <<analysisResult, clockVars, settingVars, searchVars, citeVars,
                   chatVars, cardVars, favoritePapers, formVars, parseVars,
                   errVars>>

\* --- chat ---

Message(role, t) == [role |-> role, text |-> t]

SetLast_Append(history, message) == Append(history, message)

\* newHistory[newHistory.length - 1] = message (no element is written when
\* the history is empty: index -1 is not an array index).
SetLast(history, message) ==
    IF history = <<>> THEN history
    ELSE [history EXCEPT ![Len(history)] = message]

\* prev.filter(m => m.parts[0].text !== '')
RECURSIVE WithoutEmptyMessages(_)
WithoutEmptyMessages(history) ==
    IF history = <<>> THEN <<>>
    ELSE (IF Head(history).text = <<>> THEN <<>> ELSE <<Head(history)>>)
         \o WithoutEmptyMessages(Tail(history))

HandleSendMessage_WhileChatting(message) ==
    /\ papers # <<>> /\ chatSession # None   \* the panel is rendered
    /\ Trim(message) # <<>>                  \* ChatPanel: inputValue.trim()
    /\ isChatting' = TRUE
    /\ chatError' = None
    /\ chatHistory' = Append(chatHistory, Message("user", message))
    /\ chat' = [pc |-> "sending", session |-> chatSession, modelResponse |-> <<>>,
                chunks |-> 0, received |-> <<>>]
    /\ sendCount' = sendCount + 1
    /\ UNCHANGED <<chatSession, clockVars, settingVars, searchVars, citeVars,
                   analysisVars, cardVars, favoritePapers, formVars, parseVars,
                   errVars>>

\* ChatPanel's handleSubmit and handleSendMessage up to its await.
HandleSendMessage(message) ==
    /\ papers # <<>> /\ chatSession # None   \* the panel is rendered
    /\ Trim(message) # <<>> /\ ~isChatting   \* ChatPanel: inputValue.trim() && !isLoading
    /\ isChatting' = TRUE
    /\ chatError' = None
    /\ chatHistory' = Append(chatHistory, Message("user", message))
    /\ chat' = [pc |-> "sending", session |-> chatSession, modelResponse |-> <<>>,
                chunks |-> 0, received |-> <<>>]
    /\ sendCount' = sendCount + 1
    /\ UNCHANGED <<chatSession, clockVars, settingVars, searchVars, citeVars,
                   analysisVars, cardVars, favoritePapers, formVars, parseVars,
                   errVars>>

\* sendMessageStream resolves: the placeholder for the reply is appended.
StreamOpens ==
    /\ chat.pc = "sending"
    /\ chatHistory' = Append(chatHistory, Message("model", <<>>))
    /\ chat' = [chat EXCEPT !.pc = "streaming"]
    /\ UNCHANGED <<chatSession, isChatting, chatError, sendCount, clockVars,
                   settingVars, searchVars, citeVars, analysisVars, cardVars,
                   favoritePapers, formVars, parseVars, errVars>>

\* One chunk of the stream arrives.
StreamChunk(chunkText) ==
    /\ chat.pc = "streaming"
    /\ LET modelResponse == chat.modelResponse \o chunkText
       IN  /\ chat' = [chat EXCEPT !.modelResponse = modelResponse,
                                   !.chunks = chat.chunks + 1,
                                   !.received = Append(chat.received, chunkText)]
           /\ chatHistory' = SetLast(chatHistory, Message("model", modelResponse))
    /\ UNCHANGED <<chatSession, isChatting, chatError, sendCount, clockVars,
                   settingVars, searchVars, citeVars, analysisVars, cardVars,
                   favoritePapers, formVars, parseVars, errVars>>

\* The stream ends: finally { setIsChatting(false) }.
StreamEnds ==
    /\ chat.pc = "streaming"
    /\ isChatting' = FALSE
    /\ chat' = NoChat
    /\ UNCHANGED <<chatSession, chatHistory, chatError, sendCount, clockVars,
                   settingVars, searchVars, citeVars, analysisVars, cardVars,
                   favoritePapers, formVars, parseVars, errVars>>

\* err instanceof Error ? err.message : 'An unknown error occurred.'
ErrorMessageOf(failure) ==
    IF failure.isError THEN failure.message ELSE <<"An unknown error occurred.">>

\* sendMessageStream rejects, or the stream fails between two chunks.
StreamThrows(failure) ==
    /\ chat.pc \in {"sending", "streaming"}
    /\ chatError' = Some(<<"Sorry, I couldn't get a response. ">> \o ErrorMessageOf(failure))
    /\ chatHistory' = WithoutEmptyMessages(chatHistory)
    /\ isChatting' = FALSE
    /\ chat' = NoChat
    /\ UNCHANGED <<chatSession, sendCount, clockVars, settingVars, searchVars,
                   citeVars, analysisVars, cardVars, favoritePapers, formVars,
                   parseVars, errVars>>

\* --- the error messages on the page ---

\* {error && <ErrorMessage message={error} />}
ShownSearchError == error

\* {analysisError && <ErrorMessage message={analysisError} />}
ShownAnalysisError == analysisError

\* ReferenceList's error, rendered with the results.
ShownCitationError == IF papers # <<>> THEN citationError ELSE None

\* ConnectedPapersModal's error: if (!result) return null.
ShownConnectedError ==
    IF connectedPapersResult # None THEN findConnectedError ELSE None

\* --- per-card lookups ---

Displayed(paper) == \E n \in 1..Len(papers) : papers[n] = paper

\* s.slice(0, i - 1) + s.slice(i)
RemoveAt(s, i) == SubSeq(s, 1, i - 1) \o SubSeq(s, i + 1, Len(s))

\* paper.sourceURL && paper.sourceURL.toLowerCase().endsWith('.pdf')
IsPdfUrl(paper) ==
    /\ "sourceURL" \in DOMAIN paper
    /\ paper.sourceURL # <<>>
    /\ ToLowerCase(paper.sourceURL)[Len(paper.sourceURL)] = ".pdf"

\* The PDF button of a card: handleDownloadPdf up to its await, or all of it
\* when the source URL is a PDF already.
HandleDownloadPdf(paper) ==
    /\ Displayed(paper)
    /\ pdfLoading # Some(paper.title)      \* the button is disabled
    /\ IF IsPdfUrl(paper)
       THEN \* window.open; return; finally
            /\ pdfLoading' = None
            /\ UNCHANGED pdfTasks
       ELSE /\ pdfLoading' = Some(paper.title)
            /\ pdfTasks' = Append(pdfTasks, paper.title)
    /\ UNCHANGED <<connectedPapersResult, isFindingConnected, findConnectedError,
                   connTasks, clockVars, settingVars, searchVars, citeVars,
                   analysisVars, chatVars, favoritePapers, formVars, parseVars,
                   errVars>>

\* findPdfLink of the i-th lookup resolves (with a link or without) or
\* rejects: a window or an alert, then finally { setPdfLoading(null) }.
PdfLookupSettles(i) ==
    /\ i \in 1..Len(pdfTasks)
    /\ pdfTasks' = RemoveAt(pdfTasks, i)
    /\ pdfLoading' = None
    /\ UNCHANGED <<connectedPapersResult, isFindingConnected, findConnectedError,
                   connTasks, clockVars, settingVars, searchVars, citeVars,
                   analysisVars, chatVars, favoritePapers, formVars, parseVars,
                   errVars>>

\* The connected-papers button of a card, up to the await.
HandleFindConnectedPapers(seedPaper) ==
    /\ Displayed(seedPaper)
    /\ isFindingConnected # Some(seedPaper.title)   \* the button is disabled
    /\ isFindingConnected' = Some(seedPaper.title)
    /\ findConnectedError' = None
    /\ connTasks' = Append(connTasks, seedPaper)
    /\ UNCHANGED <<connectedPapersResult, pdfLoading, pdfTasks, clockVars,
                   settingVars, searchVars, citeVars, analysisVars, chatVars,
                   favoritePapers, formVars, parseVars, errVars>>

NO_CONNECTIONS_MESSAGE ==
    <<"Could not find and parse any connected papers for this article.">>

\* findConnectedPapers of the i-th lookup resolves with a response text.
ConnectedReturns(i, t) ==
    /\ i \in 1..Len(connTasks)
    /\ LET connections == parseConnectedPapersResponse(t)
       IN  IF connections # <<>>
           THEN /\ connectedPapersResult' =
                       Some([seedPaper |-> connTasks[i], connections |-> connections])
                /\ UNCHANGED findConnectedError
           ELSE /\ findConnectedError' = Some(NO_CONNECTIONS_MESSAGE)
                /\ UNCHANGED connectedPapersResult
    /\ isFindingConnected' = None
    /\ connTasks' = RemoveAt(connTasks, i)
    /\ UNCHANGED <<pdfLoading, pdfTasks, clockVars, settingVars, searchVars,
                   citeVars, analysisVars, chatVars, favoritePapers, formVars,
                   parseVars, errVars>>

\* findConnectedPapers of the i-th lookup rejects.
ConnectedThrows(i, failure) ==
    /\ i \in 1..Len(connTasks)
    /\ findConnectedError' = Some(ErrorMessageOf(failure))
    /\ isFindingConnected' = None
    /\ connTasks' = RemoveAt(connTasks, i)
    /\ UNCHANGED <<connectedPapersResult, pdfLoading, pdfTasks, clockVars,
                   settingVars, searchVars, citeVars, analysisVars, chatVars,
                   favoritePapers, formVars, parseVars, errVars>>

\* ConnectedPapersModal's onClose (the modal is rendered for a result).
CloseConnectedModal ==
    /\ connectedPapersResult # None
    /\ connectedPapersResult' = None
    /\ findConnectedError' = None
    /\ UNCHANGED <<isFindingConnected, pdfLoading, pdfTasks, connTasks, clockVars,
                   settingVars, searchVars, citeVars, analysisVars, chatVars,
                   favoritePapers, formVars, parseVars, errVars>>

\* --- SearchForm ---

\* The words typed into the search box or suggested, and their lengths.
WordLength == [w \in {"ml", "nets", "graph", "machine", "learning"} |->
                  CASE w = "ml" -> 2 [] w = "nets" -> 4 [] w = "graph" -> 5
                    [] w = "machine" -> 7 [] w = "learning" -> 8]

\* String.prototype.length
RECURSIVE StringLength(_)
StringLength(s) ==
    IF s = <<>> THEN 0
    ELSE (IF Head(s) \in DOMAIN WordLength THEN WordLength[Head(s)] ELSE 1)
         + StringLength(Tail(s))

\* onChange of the search box (disabled while a search is loading).
HandleInputChange(value) ==
    /\ ~isLoading
    /\ value # inputValue
    /\ suggestionsDisabled' = FALSE
    /\ inputValue' = value
    /\ UNCHANGED <<isLoading, isSuggesting, suggestTasks, suggestCalls>>
    /\ FormEffect
    /\ UNCHANGED <<query, papers, error, hasSearched, searchCache, search,
                   searchCount, fetchCalls, clockVars, settingVars, citeVars,
                   analysisVars, chatVars, cardVars, favoritePapers, parseVars,
                   errVars>>

TimerFires_Untrimmed(timer) ==
    /\ timer \in timers
    /\ timers' = timers \ {timer}
    /\ LET q == timer.value
       IN  IF StringLength(q) < 5
           THEN /\ suggestions' = <<>>
                /\ UNCHANGED <<isSuggesting, suggestTasks, suggestCalls>>
           ELSE /\ isSuggesting' = TRUE
                /\ suggestTasks' = Append(suggestTasks, q)
                /\ suggestCalls' = suggestCalls + 1
                /\ UNCHANGED suggestions
    /\ UNCHANGED <<inputValue, suggestionsDisabled, debounceTimeout, appVars,
                   parseVars, errVars>>

\* The 500 ms timer fires: fetchSuggestions(inputValue) up to its await.
TimerFires(timer) ==
    /\ timer \in timers
    /\ timers' = timers \ {timer}
    /\ LET q == timer.value
       IN  IF StringLength(Trim(q)) < 5
           THEN /\ suggestions' = <<>>
                /\ UNCHANGED <<isSuggesting, suggestTasks, suggestCalls>>
           ELSE /\ isSuggesting' = TRUE
                /\ suggestTasks' = Append(suggestTasks, q)
                /\ suggestCalls' = suggestCalls + 1
                /\ UNCHANGED suggestions
    /\ UNCHANGED <<inputValue, suggestionsDisabled, debounceTimeout, appVars,
                   parseVars, errVars>>

\* generateSearchSuggestions of the i-th fetch resolves (with [] when the
\* request failed): setSuggestions(result); setIsSuggesting(false).
SuggestionsReturn(i, result) ==
    /\ i \in 1..Len(suggestTasks)
    /\ suggestions' = result
    /\ isSuggesting' = FALSE
    /\ suggestTasks' = RemoveAt(suggestTasks, i)
    /\ UNCHANGED <<inputValue, suggestionsDisabled, debounceTimeout, timers,
                   suggestCalls, appVars, parseVars, errVars>>

\* A click on the n-th entry of the displayed suggestion list.
HandleSuggestionClick(n) ==
    /\ ~isSuggesting /\ n \in 1..Len(suggestions)
    /\ suggestionsDisabled' = TRUE
    /\ inputValue' = suggestions[n]
    /\ UNCHANGED <<isLoading, isSuggesting, suggestTasks, suggestCalls>>
    /\ FormEffect
    /\ UNCHANGED <<query, papers, error, hasSearched, searchCache, search,
                   searchCount, fetchCalls, clockVars, settingVars, citeVars,
                   analysisVars, chatVars, cardVars, favoritePapers, parseVars,
                   errVars>>

\* The form is submitted with the advanced options it holds.
HandleSubmit(advancedOptions) ==
    /\ suggestionsDisabled' = TRUE
    /\ AppHandleSearch(inputValue, advancedOptions)
    /\ UNCHANGED <<inputValue, isSuggesting, suggestTasks, suggestCalls>>
    /\ FormEffect

\* --- the prompt of a search ---

PUBLISHED_BETWEEN == "- The papers MUST be published between "
PUBLISHED_AFTER == "- The papers MUST be published in or after "
PUBLISHED_BEFORE == "- The papers MUST be published in or before "
INCLUDE_AUTHORS == "- The papers MUST include at least one of the following authors: "
EXCLUDE_KEYWORDS ==
    "- The search results MUST NOT include papers primarily about the following keywords: "

YearClause_StartAlone(startYear, endYear) ==
    IF startYear # <<>>
    THEN <<"\n", PUBLISHED_AFTER>> \o startYear \o <<".">>
    ELSE IF endYear # <<>>
    THEN <<"\n", PUBLISHED_BEFORE>> \o endYear \o <<".">>
    ELSE <<>>

\* if (startYear && endYear) ... else if (startYear) ... else if (endYear) ...
YearClause(startYear, endYear) ==
    IF startYear # <<>> /\ endYear # <<>>
    THEN <<"\n", PUBLISHED_BETWEEN>> \o startYear \o <<" and ">> \o endYear \o <<".">>
    ELSE IF startYear # <<>>
    THEN <<"\n", PUBLISHED_AFTER>> \o startYear \o <<".">>
    ELSE IF endYear # <<>>
    THEN <<"\n", PUBLISHED_BEFORE>> \o endYear \o <<".">>
    ELSE <<>>

buildAdvancedSearchPrompt(options) ==
    YearClause(options.startYear, options.endYear)
    \o (IF options.authors # <<>>
        THEN <<"\n", INCLUDE_AUTHORS, "\"">> \o options.authors \o <<"\"", ".">>
        ELSE <<>>)
    \o (IF options.excludeKeywords # <<>>
        THEN <<"\n", EXCLUDE_KEYWORDS, "\"">> \o options.excludeKeywords \o <<"\"", ".">>
        ELSE <<>>)

\* CONSTRAINTS:${advancedSearchInstruction || '\n- None.'}
ConstraintsSection(options) ==
    <<"CONSTRAINTS:">>
    \o (IF buildAdvancedSearchPrompt(options) # <<>>
        THEN buildAdvancedSearchPrompt(options)
        ELSE <<"\n", "- None.">>)

(***************************************************************************)
(* Specifications                                                          *)
(***************************************************************************)

ParseInit ==
    /\ blocks \in WrittenBlocks
    /\ text = RenderText(blocks)
    /\ parsed = <<>>
    /\ ppc = "ready"

\* No text is being parsed.
ParseIdle ==
    /\ blocks = <<>>
    /\ text = <<>>
    /\ parsed = <<>>
    /\ ppc = "off"

\* No failure is being classified.
ErrIdle ==
    /\ caught = [isError |-> FALSE, message |-> <<>>]
    /\ context = "none"
    /\ thrown = [name |-> "off", message |-> <<>>]

ParseResponse ==
    /\ ppc = "ready"
    /\ parsed' = parseGeminiResponse(text)
    /\ ppc' = "parsed"
    /\ UNCHANGED <<blocks, text>>

vars == <<parseVars, errVars, appVars, formVars>>

\* The parser on every written text.
InitParse == ParseInit /\ ErrIdle /\ AppInit /\ FormInit

NextParse == ParseResponse /\ UNCHANGED <<errVars, appVars, formVars>>

SpecParse == InitParse /\ [][NextParse]_vars

\* The classifier on every failure.
InitErr == ErrInit /\ ParseIdle /\ AppInit /\ FormInit

NextErr == ClassifyError /\ UNCHANGED <<parseVars, appVars, formVars>>

SpecErr == InitErr /\ [][NextErr]_vars

\* --- The prompt builder on every choice of options ---

PromptOptions ==
    [startYear : {<<>>, <<"2019">>, <<"2020">>},
     endYear : {<<>>, <<"2021">>, <<"2022">>},
     authors : {<<>>, <<"Lee">>, <<" ">>},
     excludeKeywords : {<<>>, <<"survey">>, <<"deep", " ", "nets">>}]

PromptInit ==
    /\ blocks \in PromptOptions
    /\ text = <<>>
    /\ parsed = <<>>
    /\ ppc = "ready"

\* fetchResearchPapers builds the CONSTRAINTS section of its prompt.
BuildPrompt ==
    /\ ppc = "ready"
    /\ parsed' = buildAdvancedSearchPrompt(blocks)
    /\ text' = ConstraintsSection(blocks)
    /\ ppc' = "prompted"
    /\ UNCHANGED blocks

InitPrompt == PromptInit /\ ErrIdle /\ AppInit /\ FormInit

NextPrompt == BuildPrompt /\ UNCHANGED <<errVars, appVars, formVars>>

SpecPrompt == InitPrompt /\ [][NextPrompt]_vars

\* --- The connected-papers parser on every written text ---

\* Bound: the number of blocks of a connected-papers text.
MaxConnectedBlocks == 3

CONNECTION == <<"cites", " ", "it">>

\* The ways the i-th block of a connected-papers text is written.
ConnectedShapes(i) ==
    { \* the five mandatory fields, without and with SourceURL
      << Field("**Title:**", TitleOf(i)), Field("**Authors:**", AUTHORS),
         Field("**Year:**", YEAR), Field("**Summary:**", SUMMARY1),
         Field("**Connection:**", CONNECTION) >>,
      << Field("**Connection:**", CONNECTION), Field("**Title:**", TitleOf(i)),
         Field("**Authors:**", AUTHORS), Field("**Year:**", YEAR),
         Field("**SourceURL:**", URL), Field("**Summary:**", SUMMARY2) >>,
      \* the four paper fields without Connection, or with an empty one
      << Field("**Title:**", TitleOf(i)), Field("**Authors:**", AUTHORS),
         Field("**Year:**", YEAR), Field("**SourceURL:**", URL),
         Field("**Summary:**", SUMMARY1) >>,
      << Field("**Title:**", TitleOf(i)), Field("**Authors:**", AUTHORS),
         Field("**Year:**", YEAR), Field("**Summary:**", SUMMARY1),
         Field("**Connection:**", <<>>) >>,
      \* a Connection but no Authors
      << Field("**Title:**", TitleOf(i)), Field("**Year:**", YEAR),
         Field("**Summary:**", SUMMARY1), Field("**Connection:**", CONNECTION) >>,
      \* nothing between two delimiters
      << >> }

RECURSIVE ConnectedBlockSeqs(_)
ConnectedBlockSeqs(n) ==
    IF n = 0 THEN {<<>>}
    ELSE {Append(bs, b) : bs \in ConnectedBlockSeqs(n - 1), b \in ConnectedShapes(n)}

WrittenConnectedBlocks(k) == UNION {ConnectedBlockSeqs(n) : n \in 0..k}

ConnectedInit ==
    /\ blocks \in WrittenConnectedBlocks(MaxConnectedBlocks)
    /\ text = RenderText(blocks)
    /\ parsed = <<>>
    /\ ppc = "ready"

ParseConnectedResponse ==
    /\ ppc = "ready"
    /\ parsed' = parseConnectedPapersResponse(text)
    /\ ppc' = "connected"
    /\ UNCHANGED <<blocks, text>>

InitConnected == ConnectedInit /\ ErrIdle /\ AppInit /\ FormInit

NextConnected == ParseConnectedResponse /\ UNCHANGED <<errVars, appVars, formVars>>

SpecConnected == InitConnected /\ [][NextConnected]_vars

\* --- The structured-output calls on every failure of their try block ---

\* Bound: the number of tokens of an error message.
MaxJsonMsgLen == 3

\* What the try block of a structured-output call can throw: the gateway's
\* failures, and JSON.parse's SyntaxError with any message.
JsonFailures(k) ==
    {[isError |-> TRUE, isSyntaxError |-> b, message |-> m] :
        b \in BOOLEAN, m \in MessagesUpTo(k)}
        \cup {[isError |-> FALSE, isSyntaxError |-> FALSE, message |-> <<>>]}

JsonContexts == {"generating citations", "performing cluster analysis"}

JsonInit ==
    /\ caught \in JsonFailures(MaxJsonMsgLen)
    /\ context \in JsonContexts
    /\ thrown = NoError

\* The catch of generateCitations.
GenerateCitationsFails ==
    /\ context = "generating citations"
    /\ thrown = NoError
    /\ thrown' = generateCitationsError(caught)
    /\ UNCHANGED <<caught, context>>

\* The catch of analyzeAndClusterPapers.
AnalyzeAndClusterPapersFails ==
    /\ context = "performing cluster analysis"
    /\ thrown = NoError
    /\ thrown' = analyzeAndClusterPapersError(caught)
    /\ UNCHANGED <<caught, context>>

InitJson == JsonInit /\ ParseIdle /\ AppInit /\ FormInit

NextJson ==
    \/ GenerateCitationsFails /\ UNCHANGED <<parseVars, appVars, formVars>>
    \/ AnalyzeAndClusterPapersFails /\ UNCHANGED <<parseVars, appVars, formVars>>

SpecJson == InitJson /\ [][NextJson]_vars

\* --- The App component: searches, the cache and the clock ---

BlankOptions == [startYear |-> <<>>, endYear |-> <<>>, authors |-> <<>>,
                 excludeKeywords |-> <<>>]

CacheQueries == { <<"x">>, <<" ", "X">> }

ONE_PAPER ==
    RenderText(<< << Field("**Title:**", TitleOf(1)), Field("**Authors:**", AUTHORS),
                     Field("**Year:**", YEAR), Field("**Summary:**", SUMMARY1) >> >>)
PROSE == <<"Sorry,", " ", "nothing", " ", "found.">>

\* Response texts: a paper, and prose without fields.
CacheTexts == { ONE_PAPER, PROSE }

SERVER_FAILURE == [isError |-> TRUE, isSyntaxError |-> FALSE,
                   message |-> <<"5", "0", "0">>]
SYNTAX_FAILURE == [isError |-> TRUE, isSyntaxError |-> TRUE,
                   message |-> <<"x">>]

\* One formatted citation per paper.
CitationsFor(ps) == [n \in 1..Len(ps) |-> <<"Cite:", " ">> \o ps[n].title]

\* Bounds: handleSearch calls, clock advances.
MaxSearches == 2
MaxTicks == 3

InitCache == ParseIdle /\ ErrIdle /\ AppInit /\ FormInit

\* Searches for one query, typed in two ways, as time passes, the source is
\* changed and papers are marked as favorites.
NextCache ==
    \/ /\ searchCount < MaxSearches
       /\ \E q \in CacheQueries : HandleSearch(q, BlankOptions)
    \/ \E t \in CacheTexts : FetchReturns(t)
    \/ FetchThrows(SERVER_FAILURE)
    \/ CitationsReturn(CitationsFor(search.parsedPapers))
    \/ CitationsThrow(SYNTAX_FAILURE)
    \/ /\ ticks < MaxTicks
       /\ \E d \in TickSteps : Tick(d)
    \/ SetSearchSource("arxiv")
    \/ \E n \in 1..Len(papers) : handleToggleFavorite(papers[n])

SpecCache == InitCache /\ [][NextCache]_vars

\* --- The App component: searches with every input of the cache key ---

\* Bound: settings moved off their initial values.
MaxSettingChanges == 1

ChangedSettings ==
    (IF searchSource = "google_scholar" THEN 0 ELSE 1)
        + (IF summaryLength = "medium" THEN 0 ELSE 1)
        + (IF summaryStyle = "paragraph" THEN 0 ELSE 1)

\* Advanced options as typed into the four text inputs.
KeyOptions ==
    { BlankOptions,
      [BlankOptions EXCEPT !.startYear = <<"2020">>],
      [BlankOptions EXCEPT !.authors = <<"a", "|", "b">>, !.excludeKeywords = <<"c">>],
      [BlankOptions EXCEPT !.authors = <<"a">>, !.excludeKeywords = <<"b", "|", "c">>] }

InitKeys == ParseIdle /\ ErrIdle /\ AppInit /\ FormInit

NextKeys ==
    \/ /\ searchCount < MaxSearches
       /\ \E q \in CacheQueries, o \in KeyOptions : HandleSearch(q, o)
    \/ \E t \in CacheTexts : FetchReturns(t)
    \/ CitationsReturn(CitationsFor(search.parsedPapers))
    \/ /\ ChangedSettings < MaxSettingChanges
       /\ \/ SetSearchSource("arxiv")
          \/ SetSummaryLength("short")
          \/ SetSummaryStyle("bullets")
    \/ \E n \in 1..Len(papers) : handleToggleFavorite(papers[n])

SpecKeys == InitKeys /\ [][NextKeys]_vars


\* --- The App component: searches and the chat ---

\* Bounds: handleSearch calls, chat messages and chunks per reply.
MaxChatSearches == 3
MaxSends == 1
MaxChunks == 2

ChatQueries == { <<"x">>, <<"ml">> }
ChatChunks == { <<"be">>, <<"cause">>, <<>> }

InitChat == ParseIdle /\ ErrIdle /\ AppInit /\ FormInit

NextChat ==
    \/ /\ searchCount < MaxChatSearches
       /\ \E q \in ChatQueries : HandleSearch(q, BlankOptions)
    \/ \E t \in CacheTexts : FetchReturns(t)
    \/ FetchThrows(SERVER_FAILURE)
    \/ CitationsReturn(CitationsFor(search.parsedPapers))
    \/ CitationsThrow(SERVER_FAILURE)
    \/ /\ sendCount < MaxSends
       /\ HandleSendMessage(<<"why?">>)
    \/ StreamOpens
    \/ /\ chat.chunks < MaxChunks
       /\ \E c \in ChatChunks : StreamChunk(c)
    \/ StreamEnds
    \/ StreamThrows(SERVER_FAILURE)

SpecChat == InitChat /\ [][NextChat]_vars


\* --- The App component: reply streams ---

\* Bounds: handleSearch calls, chat messages and chunks per reply.
MaxStreamSearches == 2
MaxStreamSends == 2
MaxStreamChunks == 2

\* Responses of fetchResearchPapers: a paper, prose, no text, a blank.
ResponseTexts == CacheTexts \cup { <<>>, <<" ">> }

InitStream == ParseIdle /\ ErrIdle /\ AppInit /\ FormInit

NextStream ==
    \/ /\ searchCount < MaxStreamSearches
       /\ HandleSearch(<<"x">>, BlankOptions)
    \/ \E t \in ResponseTexts : FetchReturns(t)
    \/ CitationsReturn(CitationsFor(search.parsedPapers))
    \/ /\ sendCount < MaxStreamSends
       /\ HandleSendMessage(<<"why?">>)
    \/ StreamOpens
    \/ /\ chat.chunks < MaxStreamChunks
       /\ \E c \in ChatChunks : StreamChunk(c)
    \/ StreamEnds
    \/ StreamThrows(SERVER_FAILURE)

SpecStream == InitStream /\ [][NextStream]_vars


\* --- The App component: the per-card lookups ---

\* Bound: lookups of one kind in flight.
MaxInFlight == 2

PDF_URL == <<"http://x/a", ".PDF">>

THREE_PAPERS ==
    RenderText(<< << Field("**Title:**", TitleOf(1)), Field("**Authors:**", AUTHORS),
                     Field("**Year:**", YEAR), Field("**Summary:**", SUMMARY1) >>,
                  << Field("**Title:**", TitleOf(2)), Field("**Authors:**", AUTHORS),
                     Field("**Year:**", YEAR), Field("**SourceURL:**", URL),
                     Field("**Summary:**", SUMMARY1) >>,
                  << Field("**Title:**", TitleOf(3)), Field("**Authors:**", AUTHORS),
                     Field("**Year:**", YEAR), Field("**SourceURL:**", PDF_URL),
                     Field("**Summary:**", SUMMARY1) >> >>)

ONE_CONNECTION ==
    RenderText(<< << Field("**Title:**", <<"Related">>), Field("**Authors:**", AUTHORS),
                     Field("**Year:**", YEAR), Field("**Summary:**", SUMMARY1),
                     Field("**Connection:**", <<"cites">>) >> >>)

InitCards == ParseIdle /\ ErrIdle /\ AppInit /\ FormInit

NextCards ==
    \/ /\ searchCount < 1
       /\ HandleSearch(<<"x">>, BlankOptions)
    \/ FetchReturns(THREE_PAPERS)
    \/ CitationsReturn(CitationsFor(search.parsedPapers))
    \/ /\ Len(pdfTasks) < MaxInFlight
       /\ \E n \in 1..Len(papers) : HandleDownloadPdf(papers[n])
    \/ \E i \in 1..Len(pdfTasks) : PdfLookupSettles(i)
    \/ /\ Len(connTasks) < MaxInFlight
       /\ \E n \in 1..Len(papers) : HandleFindConnectedPapers(papers[n])
    \/ \E i \in 1..Len(connTasks), t \in {ONE_CONNECTION, PROSE} : ConnectedReturns(i, t)
    \/ \E i \in 1..Len(connTasks) : ConnectedThrows(i, SERVER_FAILURE)
    \/ CloseConnectedModal

SpecCards == InitCards /\ [][NextCards]_vars


\* --- The App component: every model task and its failures ---

\* Bounds: handleSearch calls, chat messages, chunks per reply and lookups
\* of one kind in flight.
MaxTaskSearches == 2
MaxTaskSends == 1
MaxTaskChunks == 1
MaxTaskInFlight == 1

RATE_LIMIT_FAILURE == [isError |-> TRUE, isSyntaxError |-> FALSE,
                       message |-> <<"4", "2", "9">>]

\* What the gateway calls throw: a failure of each kind of the classifier.
TaskFailures == {RATE_LIMIT_FAILURE, SERVER_FAILURE, SYNTAX_FAILURE}

\* One cluster holding every paper.
ClustersFor(ps) == [clusters |-> << [theme |-> <<"theme">>, papers |-> TitlesOf(ps)] >>]

InitTasks == ParseIdle /\ ErrIdle /\ AppInit /\ FormInit

NextTasks ==
    \/ /\ searchCount < MaxTaskSearches
       /\ HandleSearch(<<"x">>, BlankOptions)
    \/ FetchReturns(ONE_PAPER)
    \/ \E f \in TaskFailures : FetchThrows(f)
    \/ CitationsReturn(CitationsFor(search.parsedPapers))
    \/ \E f \in TaskFailures : CitationsThrow(f)
    \/ HandleAnalysis
    \/ AnalysisReturns(ClustersFor(analysis.papers))
    \/ \E f \in TaskFailures : AnalysisThrows(f)
    \/ /\ sendCount < MaxTaskSends
       /\ HandleSendMessage(<<"why?">>)
    \/ StreamOpens
    \/ /\ chat.chunks < MaxTaskChunks
       /\ StreamChunk(<<"be">>)
    \/ StreamEnds
    \/ StreamThrows(SERVER_FAILURE)
    \/ /\ Len(pdfTasks) < MaxTaskInFlight
       /\ \E n \in 1..Len(papers) : HandleDownloadPdf(papers[n])
    \/ \E i \in 1..Len(pdfTasks) : PdfLookupSettles(i)
    \/ /\ Len(connTasks) < MaxTaskInFlight
       /\ \E n \in 1..Len(papers) : HandleFindConnectedPapers(papers[n])
    \/ \E i \in 1..Len(connTasks) : ConnectedReturns(i, ONE_CONNECTION)
    \/ \E i \in 1..Len(connTasks), f \in TaskFailures : ConnectedThrows(i, f)
    \/ CloseConnectedModal

SpecTasks == InitTasks /\ [][NextTasks]_vars

\* The tasks with one kind of failure, for the claims about progress.
NextTasksFair ==
    \/ /\ searchCount < MaxTaskSearches
       /\ HandleSearch(<<"x">>, BlankOptions)
    \/ FetchReturns(ONE_PAPER)
    \/ FetchThrows(SERVER_FAILURE)
    \/ CitationsReturn(CitationsFor(search.parsedPapers))
    \/ CitationsThrow(SERVER_FAILURE)
    \/ HandleAnalysis
    \/ AnalysisReturns(ClustersFor(analysis.papers))
    \/ AnalysisThrows(SERVER_FAILURE)
    \/ /\ sendCount < MaxTaskSends
       /\ HandleSendMessage(<<"why?">>)
    \/ StreamOpens
    \/ /\ chat.chunks < MaxTaskChunks
       /\ StreamChunk(<<"be">>)
    \/ StreamEnds
    \/ StreamThrows(SERVER_FAILURE)
    \/ /\ Len(pdfTasks) < MaxTaskInFlight
       /\ \E n \in 1..Len(papers) : HandleDownloadPdf(papers[n])
    \/ \E i \in 1..Len(pdfTasks) : PdfLookupSettles(i)
    \/ /\ Len(connTasks) < MaxTaskInFlight
       /\ \E n \in 1..Len(papers) : HandleFindConnectedPapers(papers[n])
    \/ \E i \in 1..Len(connTasks) : ConnectedReturns(i, ONE_CONNECTION)
    \/ \E i \in 1..Len(connTasks) : ConnectedThrows(i, SERVER_FAILURE)
    \/ CloseConnectedModal

\* The tasks when the gateway settles every request. A pending promise does
\* not stay pending for ever. For the search and the connected-papers
\* request the condition is put on the rejecting step, which is enabled
\* exactly while the request is pending: the request is answered, which
\* disables the step, or it fails. A stream that has opened ends or fails.
\* Nothing is assumed about the user's actions.
SpecTasksFair ==
    /\ InitTasks /\ [][NextTasksFair]_vars
    /\ WF_vars(FetchThrows(SERVER_FAILURE))
    /\ WF_vars(\/ CitationsReturn(CitationsFor(search.parsedPapers))
               \/ CitationsThrow(SERVER_FAILURE))
    /\ WF_vars(\/ AnalysisReturns(ClustersFor(analysis.papers))
               \/ AnalysisThrows(SERVER_FAILURE))
    /\ WF_vars(\/ StreamOpens
               \/ chat.chunks < MaxTaskChunks /\ StreamChunk(<<"be">>)
               \/ StreamEnds
               \/ StreamThrows(SERVER_FAILURE))
    /\ WF_vars(\E i \in 1..Len(pdfTasks) : PdfLookupSettles(i))
    /\ WF_vars(\E i \in 1..Len(connTasks) : ConnectedThrows(i, SERVER_FAILURE))

\* --- Cluster analysis across searches ---

MaxAnalysisSearches == 3

\* Response texts of one paper, of three papers and of none.
AnalysisTexts == { ONE_PAPER, THREE_PAPERS, PROSE }

InitAnalysis == ParseIdle /\ ErrIdle /\ AppInit /\ FormInit

NextAnalysis ==
    \/ /\ searchCount < MaxAnalysisSearches
       /\ \E q \in ChatQueries : HandleSearch(q, BlankOptions)
    \/ \E t \in AnalysisTexts : FetchReturns(t)
    \/ FetchThrows(SERVER_FAILURE)
    \/ CitationsReturn(CitationsFor(search.parsedPapers))
    \/ CitationsThrow(SERVER_FAILURE)
    \/ HandleAnalysis
    \/ AnalysisReturns(ClustersFor(analysis.papers))
    \/ AnalysisThrows(SYNTAX_FAILURE)

SpecAnalysis == InitAnalysis /\ [][NextAnalysis]_vars

\* --- Searches seeded with favorites ---

MaxFavoriteSearches == 3

InitFavorites == ParseIdle /\ ErrIdle /\ AppInit /\ FormInit

NextFavorites ==
    \/ /\ searchCount < MaxFavoriteSearches
       /\ HandleSearch(<<"x">>, BlankOptions)
    \/ FetchReturns(THREE_PAPERS)
    \/ CitationsReturn(CitationsFor(search.parsedPapers))
    \/ \E n \in 1..Len(papers) : handleToggleFavorite(papers[n])

SpecFavorites == InitFavorites /\ [][NextFavorites]_vars

\* --- The SearchForm component inside the App ---

\* Bounds: suggestion requests, keystroke events.
MaxSuggestCalls == 2

InputValues == { <<>>, <<"ml">>, <<" ", "nets", " ">>, <<"machine">>,
                 <<"graph", " ", "nets">> }

SuggestionResults == { <<>>, << <<"machine", " ", "learning">> >> }

InitForm == ParseIdle /\ ErrIdle /\ AppInit /\ FormInit

NextForm ==
    \/ \E v \in InputValues : HandleInputChange(v)
    \/ /\ suggestCalls < MaxSuggestCalls
       /\ \E timer \in timers : TimerFires(timer)
    \/ \E i \in 1..Len(suggestTasks), r \in SuggestionResults : SuggestionsReturn(i, r)
    \/ \E n \in 1..Len(suggestions) : HandleSuggestionClick(n)
    \/ /\ searchCount < MaxSearches
       /\ HandleSubmit(BlankOptions)
    \/ FetchReturns(ONE_PAPER)
    \/ FetchThrows(SERVER_FAILURE)
    \/ CitationsReturn(CitationsFor(search.parsedPapers))

SpecForm == InitForm /\ [][NextForm]_vars

(***************************************************************************)
(* Parser claims                                                           *)
(***************************************************************************)

Mandatory == {"title", "authors", "year", "summary"}

\* The value block b was written with for key k (<<>> when the field is
\* missing or written empty).
WrittenValue(b, k) ==
    IF \E n \in 1..Len(b) : LabelKey[b[n].label] = k
    THEN b[CHOOSE n \in 1..Len(b) : LabelKey[b[n].label] = k].value
    ELSE <<>>

WrittenComplete(b) == \A k \in Mandatory : WrittenValue(b, k) # <<>>

HasInlineDelim(b) == \E n \in 1..Len(b) : Includes(b[n].value, DELIM)

\* The record a written block stands for.
OriginalRecord(b) ==
    [f \in {PaperFieldName(LabelKey[b[n].label]) : n \in 1..Len(b)} \ {"none"} |->
        WrittenValue(b, IF f = "sourceURL" THEN "sourceurl" ELSE f)]

RECURSIVE OriginalRecords(_)
OriginalRecords(bs) ==
    IF bs = <<>> THEN <<>>
    ELSE (IF WrittenComplete(Head(bs)) THEN <<OriginalRecord(Head(bs))>> ELSE <<>>)
         \o OriginalRecords(Tail(bs))

Titles(records) == [n \in 1..Len(records) |-> records[n].title]

\* C1: the parser returns one record per block in which Title, Authors, Year
\* and Summary were all found non-empty, in block order, and nothing else:
\* every returned record has the four mandatory fields non-empty, and when
\* the only --- of the text are its separator lines the returned titles are
\* the titles of the complete written blocks, in the order written.
C1_CompleteBlocksInOrder ==
    ppc = "parsed" =>
        /\ \A n \in 1..Len(parsed) :
              \A f \in Mandatory : f \in DOMAIN parsed[n] /\ parsed[n][f] # <<>>
        /\ (\A i \in 1..Len(blocks) : ~HasInlineDelim(blocks[i]))
              => Titles(parsed) = Titles(OriginalRecords(blocks))

\* Witness of C1: a block missing only Authors is dropped and the complete
\* block after it is returned.
C1_Witness ==
    /\ ppc = "parsed"
    /\ Len(blocks) = 2
    /\ WrittenValue(blocks[1], "authors") = <<>>
    /\ \A k \in Mandatory \ {"authors"} : WrittenValue(blocks[1], k) # <<>>
    /\ ~\E n \in 1..Len(blocks[1]) : LabelKey[blocks[1][n].label] = "authors"
    /\ WrittenComplete(blocks[2])
    /\ ~HasInlineDelim(blocks[2])
    /\ Len(parsed) = 1
    /\ parsed[1].title = TitleOf(2)

\* C6 as claimed: a --- inside a line of a field value does not end the
\* block, so every complete written block comes back as one record with its
\* full title and summary.
C6_InlineDelimKeepsRecord ==
    ppc = "parsed" =>
        \A i \in 1..Len(blocks) :
            WrittenComplete(blocks[i]) =>
                \E n \in 1..Len(parsed) :
                    /\ parsed[n].title = WrittenValue(blocks[i], "title")
                    /\ parsed[n].summary = WrittenValue(blocks[i], "summary")

\* C7 as claimed: a text written from complete records parses back to
\* exactly those records.
C7_RoundTrip ==
    (ppc = "parsed" /\ \A i \in 1..Len(blocks) : WrittenComplete(blocks[i]))
        => parsed = OriginalRecords(blocks)

\* The round trip restricted to texts whose values hold no ---.
RoundTripWithoutInlineDelim ==
    (ppc = "parsed" /\ \A i \in 1..Len(blocks) :
            WrittenComplete(blocks[i]) /\ ~HasInlineDelim(blocks[i]))
        => parsed = OriginalRecords(blocks)

(***************************************************************************)
(* Classifier claims                                                       *)
(***************************************************************************)

Has429(m) ==
    \E i \in 1..(Len(m) - 2) : m[i] = "4" /\ m[i + 1] = "2" /\ m[i + 2] = "9"

HasRateLimitAnyCase(m) == \E i \in 1..Len(m) : m[i] \in {"rate limit", "Rate Limit"}

Has5xx(m) ==
    \E i \in 1..(Len(m) - 2) :
        m[i] = "5" /\ m[i + 1] \in Digits /\ m[i + 2] \in Digits

HasServerErrorExact(m) == \E i \in 1..Len(m) : m[i] = "server error"

HasServerErrorAnyCase(m) ==
    \E i \in 1..Len(m) : m[i] \in {"server error", "Server Error"}

RateLimitMarker(m) == Has429(m) \/ HasRateLimitAnyCase(m)

\* The kind the claim assigns to an Error with message m, given what counts
\* as a server-error marker.
ClaimedKind(m, serverMarker) ==
    IF RateLimitMarker(m) THEN "RateLimitError"
    ELSE IF serverMarker THEN "ServerError"
    ELSE "ApiError"

\* C5 as claimed: the ServerError phrase is "server error" as written,
\* while "rate limit" is matched in any case.
C5_ClassificationAsClaimed ==
    (thrown # NoError /\ thrown.name # "off" /\ caught.isError) =>
        thrown.name =
            ClaimedKind(caught.message,
                        Has5xx(caught.message) \/ HasServerErrorExact(caught.message))

\* C5 amended: as claimed, with "server error" matched case-insensitively
\* too.  Exactly one kind is thrown, RateLimit before ServerError before
\* ApiError, and the generic ApiError wraps the original message with the
\* task context.
C5_Classification ==
    (thrown # NoError /\ thrown.name # "off" /\ caught.isError) =>
        /\ thrown.name =
              ClaimedKind(caught.message,
                          Has5xx(caught.message) \/ HasServerErrorAnyCase(caught.message))
        /\ thrown.name = "ApiError" =>
              /\ Includes(thrown.message, <<context>>)
              /\ SubSeq(thrown.message, Len(thrown.message) - Len(caught.message) + 1,
                        Len(thrown.message)) = caught.message

\* Witness of C5: a message with a RateLimit marker and a ServerError marker
\* has been classified, as RateLimit.
C5_Witness ==
    /\ caught.isError
    /\ Has429(caught.message)
    /\ Has5xx(caught.message)
    /\ thrown.name = "RateLimitError"

(***************************************************************************)
(* Claims about the search cache (SpecCache, SpecKeys)                     *)
(***************************************************************************)

\* The step is a handleSearch call, with this query and these options.
SearchStep == searchCount' = searchCount + 1
CalledQuery == search'.searchQuery
CalledOptions == search'.inputs.options

\* What a handleSearch call with this query and these options asks for.
InputsOf(searchQuery, advancedOptions) ==
    [query |-> ToLowerCase(Trim(searchQuery)), source |-> searchSource,
     length |-> summaryLength, style |-> summaryStyle,
     options |-> advancedOptions, favorites |-> favoritePapers]

KeyOf(searchQuery, advancedOptions) ==
    CacheKey(searchQuery, searchSource, summaryLength, summaryStyle,
             advancedOptions, favoritePapers)

\* The cache holds, under the call's key, an entry that a call with the same
\* inputs wrote less than five minutes ago.
FreshEntryOfSameInputs(searchQuery, advancedOptions) ==
    LET k == KeyOf(searchQuery, advancedOptions)
    IN  /\ k \in DOMAIN searchCache
        /\ searchCache[k].inputs = InputsOf(searchQuery, advancedOptions)
        /\ now - searchCache[k].timestamp < 300000

ServedIffFresh ==
    [][ (SearchStep /\ KeyOf(CalledQuery, CalledOptions) \in DOMAIN searchCache)
            => IF now - searchCache[KeyOf(CalledQuery, CalledOptions)].timestamp < 300000
               THEN fetchCalls' = fetchCalls /\ search'.outcome = "hit"
               ELSE fetchCalls' = fetchCalls + 1 /\ search'.pc = "fetching" ]_vars

\* The entry under the key of the last search was written at or after that
\* search's lookup.
Overwritten ==
    /\ search.cacheKey \in DOMAIN searchCache
    /\ searchCache[search.cacheKey].timestamp >= search.lookupAt
    /\ searchCache[search.cacheKey].inputs = search.inputs

\* C3 as stated: an entry is served exactly while less than five minutes old,
\* and every finished search that found it expired has issued a request and
\* overwritten the entry.
C3_ExpiredEntryAlwaysOverwritten ==
    /\ ServedIffFresh
    /\ [](search.pc = "idle" /\ search.expired => Overwritten)

\* C3: an entry is served exactly while less than five minutes old; the
\* search that finds it expired issues a request, and has overwritten the
\* entry once that request has returned a response.
C3_ExpiredEntryOverwrittenOnResponse ==
    /\ ServedIffFresh
    /\ [](search.pc = "idle" /\ search.expired /\ search.outcome = "delivered"
            => Overwritten)

\* The second search found the first one's entry exactly five minutes old,
\* issued a request and overwrote the entry.
C3_Witness ==
    /\ search.pc = "idle" /\ search.expired /\ search.outcome = "delivered"
    /\ fetchCalls = 2
    /\ Overwritten

\* C4: a search is served from the cache only an entry that a search with
\* the same inputs wrote.
C4_HitHasSameInputs ==
    search.outcome = "hit" => searchCache[search.cacheKey].inputs = search.inputs

(***************************************************************************)
(* Claims about the per-card lookups (SpecCards)                           *)
(***************************************************************************)

\* ResultsDisplay: isPdfLoading={pdfLoading === paper.title} and
\* isFindingConnected={isFindingConnected === paper.title}
CardShowsPdfLoading(title) == pdfLoading = Some(title)
CardShowsFindingConnected(title) == isFindingConnected = Some(title)

\* C8: while the PDF lookup or the connected-papers lookup for a displayed
\* paper is in flight, that paper's card shows the loading state of the
\* lookup, whatever other lookups were started or have finished meanwhile.
C8_CardLoadingWhileInFlight ==
    /\ \A i \in 1..Len(pdfTasks) :
           (\E n \in 1..Len(papers) : papers[n].title = pdfTasks[i])
               => CardShowsPdfLoading(pdfTasks[i])
    /\ \A i \in 1..Len(connTasks) :
           Displayed(connTasks[i]) => CardShowsFindingConnected(connTasks[i].title)

(***************************************************************************)
(* Claims about the suggestions of the search form (SpecForm)              *)
(***************************************************************************)

\* SearchSuggestions renders the list unless it is loading or empty.
VisibleSuggestions == IF isSuggesting THEN <<>> ELSE suggestions

\* C9: once the user has submitted a search or selected a suggestion, and
\* has not typed since, no suggestion list is on display: a suggestion fetch
\* that completes then is suppressed.
C9_LateSuggestionsSuppressed ==
    suggestionsDisabled => VisibleSuggestions = <<>>

(***************************************************************************)
(* Claims about the chat (SpecChat, SpecStream)                            *)
(***************************************************************************)

\* The step in which a search delivers its result set: the cached papers of
\* a hit, or the papers parsed from the response.
DeliversResultSet ==
    \/ searchCount' = searchCount + 1 /\ search'.outcome = "hit"
    \/ search.pc = "fetching" /\ search'.pc # "fetching" /\ search'.outcome # "failed"

\* The chat context after the step is the one made from the papers on
\* display after the step (none for no papers).
ChatSeededAfterStep ==
    IF papers' = <<>> THEN chatSession' = None
    ELSE chatSession' = Some([papers |-> papers', createdBy |-> searchCount'])

\* C10: when a search delivers a result set, fresh or from the cache, the
\* chat history is empty and the chat context is the one made from that
\* result set.
C10_ChatResetOnEveryResultSet ==
    [][DeliversResultSet => chatHistory' = <<>> /\ ChatSeededAfterStep]_vars

\* The step in which a reply stream fails: handleSendMessage's catch runs.
StreamFails ==
    chat.pc # "idle" /\ chat'.pc = "idle" /\ chatError' # None

\* The history without a trailing model message whose text is empty.
WithoutTrailingPlaceholder(history) ==
    IF history # <<>> /\ history[Len(history)] = Message("model", <<>>)
    THEN SubSeq(history, 1, Len(history) - 1)
    ELSE history

\* C11: when a reply stream fails, the history afterwards is the history
\* before without its trailing empty placeholder: every other message,
\* user or model, is kept as it was.
C11_OnlyPlaceholderRemoved ==
    [][StreamFails => chatHistory' = WithoutTrailingPlaceholder(chatHistory)]_vars

\* The step in which one chunk of the reply stream is applied.
ChunkStep ==
    chat.pc = "streaming" /\ chat'.chunks = chat.chunks + 1

\* The chunks of a stream, one after the other.
RECURSIVE Concat(_)
Concat(chunkTexts) ==
    IF chunkTexts = <<>> THEN <<>>
    ELSE Head(chunkTexts) \o Concat(Tail(chunkTexts))

\* The history ends with a model message of the given text.
EndsWithReply(history, t) ==
    history # <<>> /\ history[Len(history)] = Message("model", t)

\* The two histories differ at most in their last entry.
SameButLast(before, after) ==
    /\ Len(after) = Len(before)
    /\ \A n \in 1..(Len(before) - 1) : after[n] = before[n]

SendStep == sendCount' = sendCount + 1

\* C13: handleSendMessage is started only while isChatting is false and no
\* reply stream is requested or open, so there is never more than one.
C13_NoSendWhileStreaming ==
    [][SendStep => ~isChatting /\ chat.pc = "idle"]_vars

\* A reply is streaming for the displayed papers' session and the panel is
\* on display: only isChatting keeps a second message from being sent.
C13_Witness ==
    /\ chat.pc = "streaming" /\ isChatting
    /\ papers # <<>> /\ chatSession # None
    /\ sendCount < MaxStreamSends

(***************************************************************************)
(* Claims about the submission of searches (SpecTasks)                     *)
(***************************************************************************)

\* A handleSearch call is waiting for its papers or for its citations.
SearchPending == search.pc \in {"fetching", "citing"}

\* C14: while a handleSearch call waits for its papers or its citations the
\* form is disabled (isLoading); handleSearch is started only when no call
\* is waiting; and a waiting call is never dropped: it goes on under its own
\* key until its request has been answered.
C14_OneSearchAtATime ==
    [][/\ SearchPending' => isLoading'
       /\ SearchStep => ~SearchPending /\ ~isLoading
       /\ SearchPending /\ search' # search =>
             /\ search'.cacheKey = search.cacheKey
             /\ \/ search'.pc = "citing"
                \/ search'.pc = "idle" /\ search'.outcome \in {"delivered", "failed"}]_vars

\* A search waits for its citations, its papers are on display and another
\* search is still possible: only the disabled form holds it back.
C14_Witness ==
    /\ search.pc = "citing" /\ isLoading /\ papers # <<>>
    /\ searchCount < MaxTaskSearches

(***************************************************************************)
(* Claims about the messages of a search (SpecStream)                      *)
(***************************************************************************)

\* C17: when the response of a search parses to no paper, the error shown
\* is the empty-response message for an empty text and the could-not-parse
\* message for any other text; when it parses to at least one paper neither
\* message is shown, then or while the papers stay on display.
C17_EmptyAndUnparsableMessages ==
    [][/\ \A t \in ResponseTexts : FetchReturns(t) =>
             /\ papers' = <<>> /\ t = <<>> => error' = Some(EMPTY_RESPONSE_MESSAGE)
             /\ papers' = <<>> /\ t # <<>> => error' = Some(UNPARSABLE_MESSAGE)
       /\ papers' # <<>> =>
             error' \notin {Some(EMPTY_RESPONSE_MESSAGE), Some(UNPARSABLE_MESSAGE)}]_vars

\* A search has ended on a response without text: no paper is on display
\* and the empty-response message is shown.
C17_Witness ==
    /\ search.pc = "idle" /\ search.outcome = "delivered"
    /\ papers = <<>> /\ hasSearched
    /\ error = Some(EMPTY_RESPONSE_MESSAGE)

(***************************************************************************)
(* Claims about the failures of the structured-output calls (SpecJson)     *)
(***************************************************************************)

\* C16: generateCitations and analyzeAndClusterPapers throw ParsingError for
\* a SyntaxError of JSON.parse, whatever its message says, and for every
\* other failure what the classifier makes of it: RateLimit before
\* ServerError before ApiError.
C16_JsonFailuresAreParsingErrors ==
    (thrown # NoError /\ context \in JsonContexts) =>
        IF caught.isSyntaxError THEN thrown.name = "ParsingError"
        ELSE IF caught.isError
        THEN thrown.name =
                ClaimedKind(caught.message,
                            Has5xx(caught.message) \/ HasServerErrorAnyCase(caught.message))
        ELSE thrown.name = "ApiError"

\* A SyntaxError whose message carries the RateLimit marker 429 has been
\* thrown on as ParsingError by the analysis call.
C16_Witness ==
    /\ context = "performing cluster analysis"
    /\ caught.isSyntaxError
    /\ caught.message = <<"4", "2", "9">>
    /\ thrown.name = "ParsingError"

(***************************************************************************)
(* Claims about the failures of the model tasks (SpecTasks)                *)
(***************************************************************************)

\* C15: when the request of a search, of its citations, of an analysis or
\* of a connected-papers lookup fails, the page shows the message of the
\* failure once the action has ended.
C15_FailuresAreShown ==
    [][\A f \in TaskFailures :
         /\ FetchThrows(f) =>
               ShownSearchError' =
                   Some(handleApiError(f, "fetching research papers").message)
         /\ CitationsThrow(f) =>
               ShownCitationError' = Some(generateCitationsError(f).message)
         /\ AnalysisThrows(f) =>
               ShownAnalysisError' = Some(analyzeAndClusterPapersError(f).message)
         /\ \A i \in 1..Len(connTasks) :
               ConnectedThrows(i, f) => ShownConnectedError' = Some(ErrorMessageOf(f))]_vars

\* The step issues a request of a model task.
FetchIssued == fetchCalls' # fetchCalls
CitationsIssued == search'.pc = "citing" /\ search.pc # "citing"
AnalysisIssued == analysis'.pc = "analyzing" /\ analysis.pc # "analyzing"
StreamIssued == chat'.pc = "sending" /\ chat.pc # "sending"
PdfLookupIssued == Len(pdfTasks') > Len(pdfTasks)
ConnectedIssued == Len(connTasks') > Len(connTasks)

\* C18: a request of a model task is issued only in the step of the user
\* action for that task, one request per action (the citations request in
\* the step that delivers the papers of the search, once per search); no
\* step that answers or fails a request issues another one.
C18_NoAutomaticRetry ==
    [][/\ FetchIssued => SearchStep /\ fetchCalls' = fetchCalls + 1
       /\ CitationsIssued => search.pc = "fetching" /\ ~SearchStep
       /\ AnalysisIssued => HandleAnalysis
       /\ StreamIssued => SendStep
       /\ PdfLookupIssued =>
             /\ Len(pdfTasks') = Len(pdfTasks) + 1
             /\ \E n \in 1..Len(papers) : HandleDownloadPdf(papers[n])
       /\ ConnectedIssued =>
             /\ Len(connTasks') = Len(connTasks) + 1
             /\ \E n \in 1..Len(papers) : HandleFindConnectedPapers(papers[n])
       /\ search.outcome = "failed" /\ search' # search => SearchStep]_vars

\* The requests of an analysis and of a connected-papers lookup have failed
\* and nothing is in flight: one search request was issued in all.
C18_Witness ==
    /\ analysisError # None /\ analysis.pc = "idle"
    /\ findConnectedError # None /\ connTasks = <<>>
    /\ search.pc = "idle" /\ chat.pc = "idle" /\ pdfTasks = <<>>
    /\ fetchCalls = 1

(***************************************************************************)
(* Claims about the suggestion timer (SpecForm)                            *)
(***************************************************************************)

\* The input values of fewer than five characters once trimmed: none, two
\* (ml) and four (nets between blanks).
ShortInputs == { <<>>, <<"ml">>, <<" ", "nets", " ">> }

\* C19: when the timer fires for an input of fewer than five characters
\* after trimming, no suggestions request is issued and the suggestion list
\* is empty after the step; no request in flight is for such an input.
C19_NoRequestForShortQuery ==
    [][/\ \A timer \in timers :
             TimerFires(timer) /\ timer.value \in ShortInputs =>
                 /\ suggestCalls' = suggestCalls
                 /\ suggestTasks' = suggestTasks
                 /\ suggestions' = <<>>
       /\ \A i \in 1..Len(suggestTasks') : suggestTasks'[i] \notin ShortInputs]_vars

\* The timer has fired for the input " nets " (six characters, four once
\* trimmed), after an earlier request was answered: no request is in flight
\* and the list is empty.
C19_Witness ==
    /\ inputValue = <<" ", "nets", " ">>
    /\ ~suggestionsDisabled /\ ~isLoading
    /\ timers = {} /\ suggestTasks = <<>>
    /\ suggestCalls = 1
    /\ suggestions = <<>>

\* The step is a keystroke: onChange with a new input value.
Keystroke == \E v \in InputValues : HandleInputChange(v)

\* The one pending timer, set in this step for the new input value.
NewTimerOnly ==
    /\ Cardinality(timers') = 1
    /\ \A t \in timers' : t.value = inputValue' /\ t \notin timers

\* A request is issued only by a firing timer whose captured input is the
\* current input, and for that input.
RequestForCurrentInput ==
    suggestCalls' # suggestCalls =>
        /\ \E t \in timers : t.value = inputValue /\ timers' = timers \ {t}
        /\ suggestTasks' = Append(suggestTasks, inputValue)

\* C20 as claimed: at most one timer is pending; every keystroke leaves
\* exactly one timer, a new one for the new input value; a request is issued
\* only for the current input value.
C20_EveryKeystrokeReschedules ==
    [][/\ Cardinality(timers') <= 1
       /\ Keystroke => NewTimerOnly
       /\ RequestForCurrentInput]_vars

\* C20: at most one timer is pending; every keystroke cancels the pending
\* timer and, unless the new input value is blank, schedules a new one for
\* it; a request is issued only for the current input value.
C20_KeystrokeReschedules ==
    [][/\ Cardinality(timers') <= 1
       /\ Keystroke => IF Trim(inputValue') = <<>> THEN timers' = {} ELSE NewTimerOnly
       /\ RequestForCurrentInput]_vars

\* The timer of an earlier input has fired and its request is in flight;
\* a keystroke has since set the one pending timer, for the current input.
C20_Witness ==
    /\ suggestTasks = << <<"graph", " ", "nets">> >>
    /\ inputValue = <<"machine">>
    /\ timers = {[id |-> 1, value |-> <<"machine">>]}
    /\ debounceTimeout = Some(1)

(***************************************************************************)
(* Claims about the connected-papers parser (SpecConnected)                *)
(***************************************************************************)

ConnectedMandatory == Mandatory \cup {"connection"}

WrittenConnected(b) == \A k \in ConnectedMandatory : WrittenValue(b, k) # <<>>

\* The title and the SourceURL (<<>> for none) of the written blocks that
\* hold the five mandatory fields.
RECURSIVE ConnectedWritten(_)
ConnectedWritten(bs) ==
    IF bs = <<>> THEN <<>>
    ELSE (IF WrittenConnected(Head(bs))
          THEN << <<WrittenValue(Head(bs), "title"), WrittenValue(Head(bs), "sourceurl")>> >>
          ELSE <<>>)
         \o ConnectedWritten(Tail(bs))

\* The title and the SourceURL (<<>> for none) of the returned records.
ConnectedReturned(records) ==
    [n \in 1..Len(records) |->
        <<records[n].title,
          IF "sourceURL" \in DOMAIN records[n] THEN records[n].sourceURL ELSE <<>> >>]

\* C21: parseConnectedPapersResponse returns a record exactly for the blocks
\* in which Title, Authors, Year, Summary and Connection were all found
\* non-empty, in block order; a block without Connection is dropped; a
\* returned record holds a SourceURL only when its block was written with one.
C21_ConnectionIsMandatory ==
    ppc = "connected" =>
        /\ \A n \in 1..Len(parsed) :
              \A f \in ConnectedMandatory : f \in DOMAIN parsed[n] /\ parsed[n][f] # <<>>
        /\ ConnectedReturned(parsed) = ConnectedWritten(blocks)

\* A block with the four paper fields and a SourceURL but no Connection has
\* been dropped, and the block after it, complete and without SourceURL,
\* returned.
C21_Witness ==
    /\ ppc = "connected"
    /\ Len(blocks) = 2
    /\ WrittenComplete(blocks[1])
    /\ ~\E n \in 1..Len(blocks[1]) : LabelKey[blocks[1][n].label] = "connection"
    /\ WrittenConnected(blocks[2])
    /\ WrittenValue(blocks[2], "sourceurl") = <<>>
    /\ Len(parsed) = 1
    /\ parsed[1].title = TitleOf(2)
    /\ "sourceURL" \notin DOMAIN parsed[1]

(***************************************************************************)
(* Claims about the prompt builder (SpecPrompt)                            *)
(***************************************************************************)

\* The clause of the prompt part that starts with the given words.
HasClause(promptPart, words) == Includes(promptPart, <<"\n", words>>)

\* C22: the prompt part holds a clause for an option exactly when the
\* option is not empty: the between clause for both years, the in-or-after
\* clause for a start year alone, the in-or-before clause for an end year
\* alone, the authors clause and the exclusion clause each for its own
\* field; with every option blank the part is empty and the CONSTRAINTS
\* section reads None, which it never does otherwise.
C22_ClauseIffOptionSet ==
    ppc = "prompted" =>
        LET o == blocks
            start == o.startYear # <<>>
            end == o.endYear # <<>>
        IN  /\ HasClause(parsed, PUBLISHED_BETWEEN) <=> start /\ end
            /\ start /\ end =>
                  Includes(parsed, <<PUBLISHED_BETWEEN>> \o o.startYear \o <<" and ">>
                                       \o o.endYear \o <<".">>)
            /\ HasClause(parsed, PUBLISHED_AFTER) <=> start /\ ~end
            /\ start /\ ~end =>
                  Includes(parsed, <<PUBLISHED_AFTER>> \o o.startYear \o <<".">>)
            /\ HasClause(parsed, PUBLISHED_BEFORE) <=> ~start /\ end
            /\ ~start /\ end =>
                  Includes(parsed, <<PUBLISHED_BEFORE>> \o o.endYear \o <<".">>)
            /\ HasClause(parsed, INCLUDE_AUTHORS) <=> o.authors # <<>>
            /\ o.authors # <<>> =>
                  Includes(parsed, <<INCLUDE_AUTHORS, "\"">> \o o.authors \o <<"\"">>)
            /\ HasClause(parsed, EXCLUDE_KEYWORDS) <=> o.excludeKeywords # <<>>
            /\ o.excludeKeywords # <<>> =>
                  Includes(parsed, <<EXCLUDE_KEYWORDS, "\"">> \o o.excludeKeywords \o <<"\"">>)
            /\ IF o = BlankOptions
               THEN parsed = <<>> /\ text = <<"CONSTRAINTS:", "\n", "- None.">>
               ELSE text = <<"CONSTRAINTS:">> \o parsed /\ ~Includes(text, <<"- None.">>)

\* The prompt part built for both years and an exclusion, without authors.
C22_Witness ==
    /\ ppc = "prompted"
    /\ blocks = [startYear |-> <<"2019">>, endYear |-> <<"2021">>, authors |-> <<>>,
                 excludeKeywords |-> <<"survey">>]
    /\ parsed = <<"\n", PUBLISHED_BETWEEN, "2019", " and ", "2021", ".",
                  "\n", EXCLUDE_KEYWORDS, "\"", "survey", "\"", ".">>

(***************************************************************************)
(* Claims about tasks that outlive a search (SpecTasks, SpecStream,        *)
(* SpecForm)                                                               *)
(***************************************************************************)

\* The titles the displayed analysis result was computed from.
AnalysedTitles == analysisResult[1].clusters[1].papers

\* C23: a cluster-analysis result on display was computed from the papers
\* on display: the result of an analysis started on an earlier result set
\* is never shown once a search has replaced the papers.
C23_AnalysisOfDisplayedPapers ==
    analysisResult # None => AnalysedTitles = TitlesOf(papers)

\* A reply stream of a session that a later search has replaced.
StaleStream == chat.pc # "idle" /\ chat.session # chatSession

\* C24: once a search has reset the chat, a reply stream that was started
\* before it leaves the new history untouched, whether it opens, delivers
\* a chunk, ends or fails.
C24_StaleStreamLeavesHistory ==
    [][StaleStream /\ chat' # chat => chatHistory' = chatHistory]_vars

\* C25: while a suggestions request is outstanding the loading indicator
\* is on, so that no list of an earlier request is on display before the
\* most recently issued request has completed.
C25_LoadingUntilLastCompletes ==
    suggestTasks # <<>> => isSuggesting /\ VisibleSuggestions = <<>>

(***************************************************************************)
(* Further claims about the search cache (SpecCache, SpecKeys)             *)
(***************************************************************************)

\* The step in which a fetched response is found to hold no paper.
DeliversNoPaper ==
    search.pc = "fetching" /\ search'.outcome = "delivered" /\ papers' = <<>>

\* C26: a search whose response parses to zero papers ends with an error
\* message and is written to the cache all the same; a repeat of the
\* search within five minutes is served that entry: no model request, an
\* empty paper list and no error message.
C26_EmptyResultIsCached ==
    [][/\ DeliversNoPaper =>
             /\ error' # None
             /\ search.cacheKey \in DOMAIN searchCache'
             /\ searchCache'[search.cacheKey].papers = <<>>
             /\ searchCache'[search.cacheKey].timestamp = now
       /\ ( /\ SearchStep
            /\ FreshEntryOfSameInputs(CalledQuery, CalledOptions)
            /\ searchCache[KeyOf(CalledQuery, CalledOptions)].papers = <<>> ) =>
             /\ fetchCalls' = fetchCalls
             /\ ~isLoading'
             /\ papers' = <<>>
             /\ error' = None]_vars

\* The repeat of a search that found no paper, one second later: served
\* from the cache, with the first attempt's message gone.
C26_Witness ==
    /\ searchCount = 2 /\ fetchCalls = 1
    /\ search.outcome = "hit" /\ search.pc = "idle"
    /\ searchCache[search.cacheKey].papers = <<>>
    /\ now - searchCache[search.cacheKey].timestamp = 1000
    /\ papers = <<>> /\ hasSearched /\ error = None

\* The papers of a favorites list, as a set.
FavoriteSet(favorites) == { favorites[n] : n \in 1..Len(favorites) }

\* An entry written less than five minutes ago by a call whose inputs were
\* those of this call, the favorites being the same papers in any order.
FreshEntryOfSameFavoriteSet(k, searchQuery, advancedOptions) ==
    LET mine == InputsOf(searchQuery, advancedOptions)
        theirs == searchCache[k].inputs
    IN  /\ [theirs EXCEPT !.favorites = <<>>] = [mine EXCEPT !.favorites = <<>>]
        /\ FavoriteSet(theirs.favorites) = FavoriteSet(mine.favorites)
        /\ now - searchCache[k].timestamp < CACHE_DURATION_MS

\* C27: the cache key depends on the favorites as a set only: a search
\* whose inputs are those of a cached search less than five minutes old,
\* with the same favorites marked in any order, has that entry's key and
\* is served from the cache.
C27_FavoritesKeyedAsSet ==
    [][SearchStep =>
          \A k \in DOMAIN searchCache :
              FreshEntryOfSameFavoriteSet(k, CalledQuery, CalledOptions) =>
                  /\ k = KeyOf(CalledQuery, CalledOptions)
                  /\ fetchCalls' = fetchCalls]_vars

\* The step in which the model request of a search fails.
SearchFails == search.pc = "fetching" /\ search'.outcome = "failed"

\* C28: a search whose model request fails leaves the cache as it was: it
\* creates no entry under its key, and an entry that was under the key,
\* expired or not, stays there as it was written.
C28_FailedSearchLeavesCache ==
    /\ [][SearchFails => searchCache' = searchCache]_vars
    /\ [](search.outcome = "failed" /\ search.cacheKey \in DOMAIN searchCache
            => search.expired
               /\ searchCache[search.cacheKey].timestamp
                      <= search.lookupAt - CACHE_DURATION_MS)
    /\ [](search.outcome = "failed" /\ search.expired
            => search.cacheKey \in DOMAIN searchCache)

\* A failed search over an expired entry: the entry is still in the cache,
\* with the papers and the time of the search that wrote it.
C28_Witness ==
    /\ search.pc = "idle" /\ search.outcome = "failed" /\ search.expired
    /\ error # None
    /\ search.cacheKey \in DOMAIN searchCache
    /\ searchCache[search.cacheKey].papers # <<>>
    /\ searchCache[search.cacheKey].timestamp = 0
    /\ search.lookupAt = 300000

(***************************************************************************)
(* Claims about the loading indicators (SpecTasksFair)                     *)
(***************************************************************************)

\* C29: when the gateway settles every request, each loading indicator
\* that was set returns to its idle value, whether the request succeeds or
\* fails: no control stays disabled for ever.
C29_IndicatorsClear ==
    /\ isLoading ~> ~isLoading
    /\ isCiting ~> ~isCiting
    /\ isAnalyzing ~> ~isAnalyzing
    /\ isChatting ~> ~isChatting
    /\ (pdfLoading # None) ~> (pdfLoading = None)
    /\ (isFindingConnected # None) ~> (isFindingConnected = None)

\* Citation generation, analysis and the chat reply have all failed, and
\* every indicator is back to idle.
C29_Witness ==
    /\ citationError # None /\ analysisError # None /\ chatError # None
    /\ ~isLoading /\ ~isCiting /\ ~isAnalyzing /\ ~isChatting
    /\ pdfLoading = None /\ isFindingConnected = None
    /\ search.pc = "idle" /\ analysis.pc = "idle" /\ chat.pc = "idle"

(***************************************************************************)
(* Claims about the chat session across searches (SpecAnalysis)            *)
(***************************************************************************)

\* C30: whenever no search is in flight, there is a chat session exactly
\* when papers are on display, and the session was seeded with the papers
\* on display, all of them and no others.
C30_SessionOfDisplayedPapers ==
    search.pc = "idle" =>
        /\ chatSession # None <=> papers # <<>>
        /\ chatSession # None => chatSession[1].papers = papers

\* The second search has delivered three papers after the first had
\* delivered one: the session is the one made from the three.
C30_Witness ==
    /\ search.pc = "idle" /\ searchCount = 2 /\ fetchCalls = 2
    /\ Len(papers) = 3
    /\ chatSession = Some([papers |-> papers, createdBy |-> 2])
    /\ \E k \in DOMAIN searchCache : Len(searchCache[k].papers) = 1

====
